---- MODULE Spec2Model ----
(***************************************************************************)
(* Live-ping monitoring of the ModelsFree dashboard.                       *)
(*                                                                         *)
(* The repository holds several implementations of the monitoring loop:    *)
(*   "explorer"  ExplorerPage with AbortController (unnamed/part_007)      *)
(*   "legacy"    ExplorerPage without cancellation (app/explorer/page.tsx) *)
(*   "settings"  SettingsPage, provider by provider (unnamed/part_007)     *)
(* and three probe functions, each followed through one invocation:        *)
(*   "pingModel"     route /api/ping-model (unnamed/part_005)              *)
(*   "pingProvider"  route /api/ping (unnamed/part_006)                    *)
(*   "ping"          core ping() (unnamed/part_010)                        *)
(* One behaviour follows one of them, chosen in Init.                      *)
(***************************************************************************)
EXTENDS Integers, FiniteSets, Sequences, TLC

\* ------------------------------------------------------------------------
\* Bounds
\* ------------------------------------------------------------------------
\* number of probe batches one behaviour may launch
MaxBatches == 2

\* number of requests that may be unsettled at the same time
MaxInFlight == 3

\* length of the ping history a model result may carry
MaxPings == 2

\* ticks of the clock of the data layer
MaxClock == 3

\* length of the result list handed to filterByTier
MaxResults == 2

\* length of the data handed to validateModelTuples
MaxTuples == 2

\* ------------------------------------------------------------------------
\* Catalogue sample and inputs
\* ------------------------------------------------------------------------
Monitors == {"explorer", "legacy"}

ProbeFunctions == {"pingModel", "pingProvider", "ping"}

\* getAvg and getVerdict of the core, applied to one ModelResult
ResultFunctions == {"getVerdict"}

Components ==
  Monitors \cup {"settings"} \cup ProbeFunctions \cup ResultFunctions

\* a sample of the flattened catalogue: [modelId, ..., providerKey]
MODELS ==
  << [modelId |-> "llama-3.1-8b-instant", providerKey |-> "groq",
      matches |-> {"llama"}],
     [modelId |-> "gemma-3-4b-it", providerKey |-> "googleai",
      matches |-> {"gemma"}] >>

ModelIdx == 1..Len(MODELS)

ProviderKeys == {MODELS[i].providerKey : i \in ModelIdx}

SearchTexts == {"", "zzz"}

ProviderFilters == {"", "groq"}

\* latencies (ms) a provider round trip may take
Latencies == {0, 120}

\* HTTP status codes a provider may answer with
StatusCodes == {200, 201, 401, 404, 429, 500}

\* ------------------------------------------------------------------------
\* State
\* ------------------------------------------------------------------------
VARIABLES
  component,              \* which implementation is mounted
  liveMonitoring,         \* useState(false)
  search,                 \* search filter text
  selectedProvider,       \* provider filter ("" = null)
  apiKeys,                \* providers with a key in localStorage
  pingStatuses,           \* Record<string, ModelPingStatus>
  probes,                 \* pingModel invocations and where each stands
  drivers,                \* runMonitoring invocations (one per effect run)
  aborted,                \* AbortControllers whose abort() was called
  pingAbortControllerRef, \* useRef<AbortController | null>
  intervalRef,            \* useRef<NodeJS.Timeout | null>
  timers,                 \* armed setTimeout handles
  currentIndex,           \* legacy: useState(0), bumped by the timer
  nextBatch,              \* id of the next batch / controller / timer
  invocation,             \* one call of a probe function
  runs,                   \* SettingsPage: handlePing calls at an await
  pingResults,            \* SettingsPage: useState<PingResult[]>([])
  pinging,                \* SettingsPage: useState(false)
  clock,                  \* Date.now() of the data layer, in ticks
  cache,                  \* DataCache: Map<string, CacheEntry>
  services,               \* the DataService instances
  written,                \* history: the latest set of each key not yet
                          \* deleted or cleared
  returned                \* the call of the data layer that just returned

vars == << component, liveMonitoring, search, selectedProvider,
           apiKeys, pingStatuses, probes, drivers, aborted,
           pingAbortControllerRef, intervalRef, timers, currentIndex,
           nextBatch, invocation, runs, pingResults, pinging,
           clock, cache, services, written, returned >>

SettingsVars == << runs, pingResults, pinging >>

DataVars == << clock, cache, services, written, returned >>

\* ------------------------------------------------------------------------
\* Server route /api/ping-model
\* ------------------------------------------------------------------------
PROVIDER_CONFIGS ==
  {"nvidia", "groq", "cerebras", "sambanova", "openrouter", "codestral",
   "googleai", "mistral", "fireworks", "hyperbolic", "scaleway"}

\* what the provider does with one request
ProviderEvents ==
  [kind : {"status"}, code : StatusCodes, latency : Latencies]
    \cup [kind : {"neterr"}, code : {0}, latency : Latencies]

HttpMessage(code) == "HTTP " \o ToString(code)

ResOk(code) == code >= 200 /\ code <= 299

\* pingModel(provider, model, apiKey) of the route, as a function of what
\* the provider answered
PingModelOutcome(provider, ev) ==
  IF provider \notin PROVIDER_CONFIGS
    THEN [success |-> FALSE, latency |-> {}, message |-> {"Unknown provider"}]
  ELSE IF ev.kind = "neterr"
    THEN [success |-> FALSE, latency |-> {ev.latency},
          message |-> {"Network error"}]
  ELSE IF provider = "googleai"
    THEN IF ResOk(ev.code)
           THEN [success |-> TRUE, latency |-> {ev.latency}, message |-> {}]
         ELSE IF ev.code = 404
           THEN [success |-> FALSE, latency |-> {ev.latency},
                 message |-> {"Model not found"}]
         ELSE IF ev.code = 401
           THEN [success |-> FALSE, latency |-> {ev.latency},
                 message |-> {"Invalid API key"}]
         ELSE IF ev.code = 429
           THEN [success |-> FALSE, latency |-> {ev.latency},
                 message |-> {"Rate limited"}]
         ELSE [success |-> FALSE, latency |-> {ev.latency},
               message |-> {HttpMessage(ev.code)}]
  ELSE IF ResOk(ev.code)
    THEN [success |-> TRUE, latency |-> {ev.latency}, message |-> {}]
  ELSE IF ev.code = 404
    THEN [success |-> FALSE, latency |-> {ev.latency},
          message |-> {"Model not found"}]
  ELSE IF ev.code = 401
    THEN [success |-> FALSE, latency |-> {ev.latency},
          message |-> {"Invalid API key"}]
  ELSE IF ev.code = 429
    THEN [success |-> FALSE, latency |-> {ev.latency},
          message |-> {"Rate limited"}]
  ELSE [success |-> FALSE, latency |-> {ev.latency},
        message |-> {HttpMessage(ev.code)}]

\* ------------------------------------------------------------------------
\* Server route /api/ping
\* ------------------------------------------------------------------------
PROVIDER_ENDPOINTS ==
  {"NVIDIA_API_KEY", "GROQ_API_KEY", "CEREBRAS_API_KEY", "SAMBANOVA_API_KEY",
   "OPENROUTER_API_KEY", "CODESTRAL_API_KEY", "GOOGLE_API_KEY",
   "MISTRAL_API_KEY"}

\* pingProvider(keyName, apiKey) of the route, as a function of what the
\* provider answered; textFails: reading the error body with res.text()
\* rejects
PingProviderOutcome(keyName, ev, textFails) ==
  IF keyName \notin PROVIDER_ENDPOINTS
    THEN [success |-> FALSE, latency |-> {}, message |-> {"Unknown provider"}]
  ELSE IF ev.kind = "neterr"
    THEN [success |-> FALSE, latency |-> {ev.latency},
          message |-> {"Network error"}]
  ELSE IF keyName = "GOOGLE_API_KEY"
    THEN IF ResOk(ev.code)
           THEN [success |-> TRUE, latency |-> {ev.latency}, message |-> {}]
         ELSE IF textFails
           THEN [success |-> FALSE, latency |-> {ev.latency},
                 message |-> {"Network error"}]
         ELSE [success |-> FALSE, latency |-> {ev.latency},
               message |-> {HttpMessage(ev.code)}]
  ELSE IF ResOk(ev.code)
    THEN [success |-> TRUE, latency |-> {ev.latency}, message |-> {}]
  ELSE IF ev.code = 401
    THEN [success |-> FALSE, latency |-> {ev.latency},
          message |-> {"Invalid API key"}]
  ELSE IF ev.code = 429
    THEN [success |-> FALSE, latency |-> {ev.latency},
          message |-> {"Rate limited"}]
  ELSE [success |-> FALSE, latency |-> {ev.latency},
        message |-> {HttpMessage(ev.code)}]

\* POST of both routes: the 400 answer for a missing apiKey
ApiKeyNotProvided ==
  [success |-> FALSE, latency |-> {}, message |-> {"API key not provided"}]

\* ------------------------------------------------------------------------
\* Core ping()
\* ------------------------------------------------------------------------
\* the value ping() returns when fetch resolved
PingResolved(ev) ==
  [code |-> ToString(ev.code), ms |-> {ev.latency}, timeout |-> FALSE]

\* the catch block of ping(): isTimeout is true for an AbortError and for
\* any error whose message mentions 'abort'; ms is then 'TIMEOUT'
PingCaught(isAbortError, messageHasAbort, elapsed) ==
  IF isAbortError \/ messageHasAbort
    THEN [code |-> "000", ms |-> {}, timeout |-> TRUE]
    ELSE [code |-> "ERR", ms |-> {elapsed}, timeout |-> FALSE]

\* ------------------------------------------------------------------------
\* Data layer: DataCache
\* ------------------------------------------------------------------------
\* this.defaultTtl, in ticks (5 * 60 * 1000 ms)
DefaultTtl == 2

\* new Map()
NoEntries == [k \in {} |-> {}]

\* a get that keeps serving an entry past its TTL
CacheGet_NoExpiry(c, key, now) ==
  IF key \notin DOMAIN c THEN [cache |-> c, value |-> {}]
  ELSE [cache |-> c, value |-> {c[key].data}]

\* DataCache.get: the value (null is {}) and the map after the lookup
CacheGet(c, key, now) ==
  IF key \notin DOMAIN c THEN [cache |-> c, value |-> {}]
  ELSE IF now - c[key].timestamp > c[key].ttl
    THEN [cache |-> [k \in DOMAIN c \ {key} |-> c[k]], value |-> {}]
  ELSE [cache |-> c, value |-> {c[key].data}]

\* DataCache.set; ttl is {} when the caller gave none
CacheSet(c, key, data, ttl, now) ==
  [k \in DOMAIN c \cup {key} |->
     IF k = key
       THEN [data |-> data, timestamp |-> now,
             ttl |-> IF ttl = {} THEN DefaultTtl
                     ELSE CHOOSE t \in ttl : TRUE]
       ELSE c[k]]

\* DataCache.delete
CacheDelete(c, key) == [k \in DOMAIN c \ {key} |-> c[k]]

\* DataCache.clear
CacheClear(c) == NoEntries

\* DataCache.stats
CacheStats(c) == [size |-> Cardinality(DOMAIN c), keys |-> DOMAIN c]

\* no call has returned since the last change
NoReturn ==
  [op |-> "none", svc |-> 0, key |-> "", value |-> {}, threw |-> FALSE,
   warned |-> FALSE]

\* ------------------------------------------------------------------------
\* Data layer: validation
\* ------------------------------------------------------------------------
\* z.enum of the tiers
TierSchema ==
  {"S+", "S", "A+", "A", "A-", "B+", "B", "B-", "C+", "C", "D"}

\* z.enum of the supported provider keys
ProviderKeySchema ==
  {"nvidia", "groq", "cerebras", "sambanova", "openrouter", "codestral",
   "googleai", "mistral"}

\* the keys of providers and of sources, in the order of the object literal
providers ==
  << "nvidia", "groq", "cerebras", "sambanova", "openrouter", "codestral",
     "googleai", "mistral", "fireworks", "hyperbolic" >>

\* the flat MODELS array, one tuple of every source (the first of its model
\* list, of the tier given here): each tuple of a source is pushed with the
\* key of the source as its sixth element
MODELS_PerSource ==
  LET tiers == << "S+", "S", "S+", "S+", "S+", "B+", "B", "S", "S+", "S+" >>
  IN [i \in 1..Len(providers) |->
        [modelId |-> providers[i] \o "/1", tier |-> tiers[i],
         providerKey |-> providers[i]]]

\* the error validateModelTuples pushes for the item, "" when it is valid.
\* An item is a record: with typeof it models a value that is not an array,
\* with length an array of that many elements, otherwise a tuple of six
\* elements, or of five when it has no providerKey
ItemError(item) ==
  IF "typeof" \in DOMAIN item THEN "Expected array"
  ELSE IF "length" \in DOMAIN item /\ item.length < 5
    THEN "Expected at least 5 elements"
  ELSE IF item.tier \notin TierSchema THEN "Invalid tier"
  ELSE IF "providerKey" \in DOMAIN item
          /\ item.providerKey \notin ProviderKeySchema
    THEN "Invalid provider key"
  ELSE ""

RECURSIVE CollectErrors(_, _)
CollectErrors(data, i) ==
  IF i > Len(data) THEN << >>
  ELSE IF ItemError(data[i]) = "" THEN CollectErrors(data, i + 1)
  ELSE << [index |-> i - 1, error |-> ItemError(data[i])] >>
         \o CollectErrors(data, i + 1)

RECURSIVE CollectValid(_, _)
\* validModels: each valid tuple with providerKey || 'nvidia'
CollectValid(data, i) ==
  IF i > Len(data) THEN << >>
  ELSE IF ItemError(data[i]) # "" THEN CollectValid(data, i + 1)
  ELSE << [modelId |-> data[i].modelId, tier |-> data[i].tier,
            providerKey |->
              IF "providerKey" \in DOMAIN data[i] /\ data[i].providerKey # ""
                THEN data[i].providerKey ELSE "nvidia"] >>
         \o CollectValid(data, i + 1)

\* validateModelTuples: { success: true, data } or { success: false, errors }
validateModelTuples(data) ==
  LET errors == CollectErrors(data, 1)
  IN IF Len(errors) > 0
       THEN [success |-> FALSE, errors |-> errors, data |-> << >>]
       ELSE [success |-> TRUE, errors |-> << >>,
             data |-> CollectValid(data, 1)]

\* ------------------------------------------------------------------------
\* Data layer: DataService
\* ------------------------------------------------------------------------
\* what a source may hold: tuples [modelId, label, tier, sweScore, ctx,
\* providerKey], of which the model keeps the fields the service reads
CatalogA ==
  << [modelId |-> "m1", tier |-> "S", providerKey |-> "groq"],
     [modelId |-> "m2", tier |-> "A", providerKey |-> "googleai"] >>

\* a non-empty config.fallbackData
FallbackCatalog ==
  << [modelId |-> "m4", tier |-> "S", providerKey |-> "groq"] >>

\* the sources a service may be given: a StaticDataSource of CatalogA, one
\* of the bundled MODELS, and a ModelDataSource whose getModels rejects
Sources == {"A", "MODELS", "throws"}

SourceModels(src) ==
  IF src = "A" THEN CatalogA ELSE MODELS_PerSource

\* new DataService(config): globalCache, cacheTtl 5 min, validation on,
\* source null
NewService(fallbackData) ==
  [source |-> "none", cacheTtl |-> DefaultTtl, enableValidation |-> TRUE,
   fallbackData |-> fallbackData]

\* a getModels that caches the fallback data it falls back to
GetModels_CachesFallback(svc, c, now) ==
  LET g == CacheGet(c, "models:all", now)
  IN IF g.value # {}
       THEN [cache |-> g.cache, value |-> CHOOSE v \in g.value : TRUE,
             threw |-> FALSE, warned |-> FALSE]
     ELSE IF svc.source \in {"none", "throws"}
       THEN [cache |-> CacheSet(g.cache, "models:all", svc.fallbackData,
                                {svc.cacheTtl}, now),
             value |-> svc.fallbackData,
             threw |-> Len(svc.fallbackData) = 0, warned |-> FALSE]
     ELSE [cache |-> CacheSet(g.cache, "models:all",
                              SourceModels(svc.source), {svc.cacheTtl}, now),
           value |-> SourceModels(svc.source), threw |-> FALSE,
           warned |-> svc.enableValidation
                      /\ ~validateModelTuples(SourceModels(svc.source)).success]

\* DataService.getModels: the cache after the call, the models returned or
\* threw when the error is propagated, and warned when the validation of the
\* fetched models logs its errors (the unvalidated models are kept)
GetModels(svc, c, now) ==
  LET g == CacheGet(c, "models:all", now)
  IN IF g.value # {}
       THEN [cache |-> g.cache, value |-> CHOOSE v \in g.value : TRUE,
             threw |-> FALSE, warned |-> FALSE]
     ELSE IF svc.source \in {"none", "throws"}
       THEN IF Len(svc.fallbackData) > 0
              THEN [cache |-> g.cache, value |-> svc.fallbackData,
                    threw |-> FALSE, warned |-> FALSE]
              ELSE [cache |-> g.cache, value |-> << >>, threw |-> TRUE,
                    warned |-> FALSE]
     ELSE [cache |-> CacheSet(g.cache, "models:all",
                              SourceModels(svc.source), {svc.cacheTtl}, now),
           value |-> SourceModels(svc.source), threw |-> FALSE,
           warned |-> svc.enableValidation
                      /\ ~validateModelTuples(SourceModels(svc.source)).success]

\* the body shared by getModelsByProvider and getModelsByTier: the entry of
\* cacheKey if live, else the models of getModels that pass the filter,
\* cached under cacheKey
GetFiltered(svc, c, now, cacheKey, field, wanted) ==
  LET g == CacheGet(c, cacheKey, now)
  IN IF g.value # {}
       THEN [cache |-> g.cache, value |-> CHOOSE v \in g.value : TRUE,
             threw |-> FALSE, warned |-> FALSE]
     ELSE LET all == GetModels(svc, g.cache, now)
              filtered == SelectSeq(all.value, LAMBDA m : m[field] = wanted)
          IN IF all.threw THEN all
             ELSE [cache |-> CacheSet(all.cache, cacheKey, filtered,
                                      {svc.cacheTtl}, now),
                   value |-> filtered, threw |-> FALSE,
                   warned |-> all.warned]

GetModelsByProvider(svc, c, now, providerKey) ==
  GetFiltered(svc, c, now, "models:provider:" \o providerKey,
              "providerKey", providerKey)

GetModelsByTier(svc, c, now, tier) ==
  GetFiltered(svc, c, now, "models:tier:" \o tier, "tier", tier)

\* ------------------------------------------------------------------------
\* Core: latency calculations
\* ------------------------------------------------------------------------
\* the value getAvg returns for a history without a successful ping; it is
\* greater than every number
Infinity == 1000000

\* Math.round of the quotient total / n of two non-negative integers, n > 0:
\* the nearest integer, a half rounded up
MathRound(total, n) == (2 * total + n) \div (2 * n)

\* (result.pings || []).filter((p) => p.code === '200')
SuccessfulPings(pings) == SelectSeq(pings, LAMBDA p : p.code = "200")

\* the reduce of getAvg: a ping whose ms is not a number adds 0
RECURSIVE TotalMs(_)
TotalMs(pings) ==
  IF pings = << >> THEN 0
  ELSE (IF Head(pings).ms # {}
          THEN CHOOSE ms \in Head(pings).ms : TRUE
          ELSE 0) + TotalMs(Tail(pings))

\* an average taken over the whole history
getAvg_AllPings(result) ==
  IF result.pings = << >> THEN Infinity
  ELSE MathRound(TotalMs(result.pings), Len(result.pings))

getAvg(result) ==
  LET successfulPings == SuccessfulPings(result.pings)
  IN IF Len(successfulPings) = 0 THEN Infinity
     ELSE MathRound(TotalMs(successfulPings), Len(successfulPings))

\* a verdict that looks at the status before the HTTP code
getVerdict_StatusFirst(result) ==
  LET avg == getAvg(result)
      wasUpBefore ==
        Len(result.pings) > 0
          /\ \E i \in 1..Len(result.pings) : result.pings[i].code = "200"
  IN IF result.status \in {"timeout", "down"} /\ wasUpBefore
       THEN "Unstable"
     ELSE IF result.status \in {"timeout", "down"} THEN "Not Active"
     ELSE IF result.httpCode = "429" THEN "Overloaded"
     ELSE IF avg = Infinity THEN "Pending"
     ELSE IF avg < 400 THEN "Perfect"
     ELSE IF avg < 1000 THEN "Normal"
     ELSE IF avg < 3000 THEN "Slow"
     ELSE IF avg < 5000 THEN "Very Slow"
     ELSE "Unstable"

getVerdict(result) ==
  LET avg == getAvg(result)
      wasUpBefore ==
        Len(result.pings) > 0
          /\ \E i \in 1..Len(result.pings) : result.pings[i].code = "200"
  IN IF result.httpCode = "429" THEN "Overloaded"
     ELSE IF result.status \in {"timeout", "down"} /\ wasUpBefore
       THEN "Unstable"
     ELSE IF result.status \in {"timeout", "down"} THEN "Not Active"
     ELSE IF avg = Infinity THEN "Pending"
     ELSE IF avg < 400 THEN "Perfect"
     ELSE IF avg < 1000 THEN "Normal"
     ELSE IF avg < 3000 THEN "Slow"
     ELSE IF avg < 5000 THEN "Very Slow"
     ELSE "Unstable"

\* latencies on both sides of every threshold of getVerdict
SampleMs == {399, 400, 999, 1000, 2999, 3000, 4999, 5000}

\* what ping() may have returned for one entry of the history
PingResults ==
  {PingResolved([kind |-> "status", code |-> 200, latency |-> ms]) :
     ms \in SampleMs}
    \cup {PingResolved([kind |-> "status", code |-> 429, latency |-> 5000]),
          PingCaught(TRUE, FALSE, 0),
          PingCaught(FALSE, FALSE, 5000)}

Histories == UNION {[1..n -> PingResults] : n \in 0..MaxPings}

\* ModelStatusSchema
ModelStatuses == {"pending", "up", "down", "timeout", "noauth"}

\* httpCode: null ("") or the code of a ping
HttpCodes == {"", "200", "429"}

\* the model results getAvg and getVerdict may be handed
ModelResults ==
  [status : ModelStatuses, pings : Histories, httpCode : HttpCodes]

\* ------------------------------------------------------------------------
\* Core: tiers and filterByTier
\* ------------------------------------------------------------------------
TIER_ORDER_CONST ==
  << "S+", "S", "A+", "A", "A-", "B+", "B", "B-", "C+", "C", "D" >>

\* the letters with an entry and the tiers each entry lists
TIER_LETTER_MAP_CONST ==
  [letter \in {"S", "A", "B", "C"} |->
     CASE letter = "S" -> {"S+", "S"}
       [] letter = "A" -> {"A+", "A", "A-"}
       [] letter = "B" -> {"B+", "B"}
       [] letter = "C" -> {"C"}]

\* packages/types: TIER_ORDER and TIER_LETTER_MAP
TIER_ORDER ==
  << "S+", "S", "A+", "A", "A-", "B+", "B", "B-", "C+", "C", "D" >>

TIER_LETTER_MAP ==
  [letter \in {"S", "A", "B", "C", "D"} |->
     CASE letter = "S" -> {"S+", "S"}
       [] letter = "A" -> {"A+", "A", "A-"}
       [] letter = "B" -> {"B+", "B", "B-"}
       [] letter = "C" -> {"C+", "C"}
       [] letter = "D" -> {"D"}]

\* the tier letters a caller may pass
TierLetters == {"S", "s", "A", "a", "B", "b", "C", "c", "D", "d", "X", "x"}

\* String.prototype.toUpperCase on the letters above
ToUpperCase(str) ==
  CASE str = "s" -> "S"
    [] str = "a" -> "A"
    [] str = "b" -> "B"
    [] str = "c" -> "C"
    [] str = "d" -> "D"
    [] str = "x" -> "X"
    [] OTHER -> str

\* a filter that looks the letter up as it was typed
filterByTier_CaseSensitive(results, tierLetter) ==
  IF tierLetter \notin DOMAIN TIER_LETTER_MAP_CONST THEN {}
  ELSE {SelectSeq(results,
                  LAMBDA r : r.tier \in TIER_LETTER_MAP_CONST[tierLetter])}

\* filterByTier: null is {}, a list is {list}
filterByTier(results, tierLetter) ==
  LET letter == ToUpperCase(tierLetter)
  IN IF letter \notin DOMAIN TIER_LETTER_MAP_CONST THEN {}
     ELSE {SelectSeq(results,
                     LAMBDA r : r.tier \in TIER_LETTER_MAP_CONST[letter])}

\* result lists: the i-th result of a list has idx i and any tier
ResultLists ==
  {[i \in 1..n |-> [idx |-> i, tier |-> ts[i]]] :
     n \in 0..MaxResults,
     ts \in [1..MaxResults ->
              {TIER_ORDER_CONST[j] : j \in DOMAIN TIER_ORDER_CONST}]}

\* ------------------------------------------------------------------------
\* ExplorerPage: derived values
\* ------------------------------------------------------------------------
Key(i) == MODELS[i].providerKey \o "-" \o MODELS[i].modelId

\* the (lower-cased) search text occurs in the model id or the label
SearchMatches(i, s) == s = "" \/ s \in MODELS[i].matches

\* filteredModels (useMemo): the targets of the active filter
filteredModels(s, prov) ==
  {i \in ModelIdx :
     /\ SearchMatches(i, s)
     /\ (prov = "" \/ MODELS[i].providerKey = prov)}

\* a pingModel without the missing-key exit
HasKey_NotChecked(i) == TRUE

\* getApiKey(providerKey) is non-empty
HasKey(i) == MODELS[i].providerKey \in apiKeys

Pending ==
  [status |-> "pending", latency |-> {}, message |-> {}, lastChecked |-> {}]

NoKeyEntry ==
  [status |-> "error", latency |-> {}, message |-> {"No API key"},
   lastChecked |-> {}]

\* a catch block that stamps its entry
NetworkErrorEntry_Stamped ==
  [status |-> "error", latency |-> {}, message |-> {"Network error"},
   lastChecked |-> {0}]

NetworkErrorEntry ==
  [status |-> "error", latency |-> {}, message |-> {"Network error"},
   lastChecked |-> {}]

\* Date.now(), abstracted to the number of batches launched so far
Now == nextBatch

\* an entry that leaves out data.message
DataEntry_NoMessage(data) ==
  [status |-> IF data.success THEN "success" ELSE "error",
   latency |-> data.latency,
   message |-> {},
   lastChecked |-> {Now}]

\* the entry written after res.json()
DataEntry(data) ==
  [status |-> IF data.success THEN "success" ELSE "error",
   latency |-> data.latency,
   message |-> data.message,
   lastChecked |-> {Now}]

\* a setPingStatuses that does not spread prev
SetStatus_NoSpread(st, k, entry) == [x \in {k} |-> entry]

\* setPingStatuses(prev => ({...prev, [key]: entry}))
SetStatus(st, k, entry) ==
  [x \in DOMAIN st \cup {k} |-> IF x = k THEN entry ELSE st[x]]

NoData == [success |-> FALSE, latency |-> {}, message |-> {}]

\* ------------------------------------------------------------------------
\* ExplorerPage.pingModel
\* ------------------------------------------------------------------------
\* the synchronous head of pingModel: pending, then the missing-key exit
PingModelStart(st, i) ==
  IF HasKey(i)
    THEN SetStatus(st, Key(i), Pending)
    ELSE SetStatus(SetStatus(st, Key(i), Pending), Key(i), NoKeyEntry)

\* the request the browser sends: fetch('/api/ping-model') with the body
\* {provider, model, apiKey}; keyOf: the provider whose key travels in it
PingModelRequest(i) ==
  [to |-> "/api/ping-model", provider |-> MODELS[i].providerKey,
   keyOf |-> MODELS[i].providerKey]

NoBrowserRequest == [to |-> "none", provider |-> "", keyOf |-> ""]

\* the invocation record pingModel leaves behind after its synchronous head
NewProbe(i, b, c, n) ==
  [batch |-> b, idx |-> i, ctrl |-> c, of |-> n,
   req |-> IF HasKey(i) THEN PingModelRequest(i) ELSE NoBrowserRequest,
   phase |-> IF HasKey(i) THEN "fetch" ELSE "done",
   resp |-> [kind |-> IF HasKey(i) THEN "none" ELSE "nokey", data |-> NoData],
   sent |-> HasKey(i),
   wrote |-> IF HasKey(i) THEN 0 ELSE 1,
   threw |-> FALSE]

RECURSIVE StatusesAfterLaunch(_, _)
\* filteredModels.map(m => pingModel(...)): the synchronous heads, in turn
StatusesAfterLaunch(st, list) ==
  IF list = {} THEN st
  ELSE LET i == CHOOSE x \in list : \A y \in list : x <= y
       IN StatusesAfterLaunch(PingModelStart(st, i), list \ {i})

\* a launch that pings the first target only
LaunchedProbes_FirstOnly(list, b, c) ==
  {NewProbe(i, b, c, Cardinality(list)) :
     i \in {x \in list : \A y \in list : x <= y}}

\* filteredModels.map(...): one pingModel call per target
LaunchedProbes(list, b, c) ==
  {NewProbe(i, b, c, Cardinality(list)) : i \in list}

Unsettled(prbs) == {p \in prbs : p.phase # "done"}

\* the model launches a batch only while the bounds leave room for it
CanLaunch(list) ==
  /\ nextBatch <= MaxBatches
  /\ Cardinality(Unsettled(probes)) + Cardinality(list) <= MaxInFlight

\* a try block that ends before res.json()
PingModelCatches_FetchOnly(stage) == stage = "fetch"

\* the try block of pingModel spans both awaits: the fetch and res.json()
PingModelCatches(stage) == stage \in {"fetch", "json"}

\* the catch block of pingModel: an AbortError writes nothing
CatchStatuses(st, p, isAbort) ==
  IF isAbort THEN st ELSE SetStatus(st, Key(p.idx), NetworkErrorEntry)

\* what the providers do to the requests the monitor causes
MonitorEvents ==
  {[kind |-> "status", code |-> 200, latency |-> 120],
   [kind |-> "status", code |-> 429, latency |-> 0]}

\* the bodies the route can answer a probe of target i with
RouteData(i) ==
  {PingModelOutcome(MODELS[i].providerKey, ev) : ev \in MonitorEvents}

Settle(p, kind, data, w) ==
  [p EXCEPT !.phase = "done", !.resp = [kind |-> kind, data |-> data],
            !.wrote = @ + w]

\* a rejection that leaves pingModel waiting
Rejected_StillWaiting(p, kind) == p

\* a rejection of the fetch or of res.json(): caught and recorded, or (were
\* it outside the try block) thrown to the caller
Rejected(p, kind) ==
  IF PingModelCatches(p.phase) THEN Settle(p, kind, NoData, 1)
  ELSE [Settle(p, kind, NoData, 0) EXCEPT !.threw = TRUE]

RejectedStatuses(st, p) ==
  IF PingModelCatches(p.phase) THEN CatchStatuses(st, p, FALSE) ELSE st

\* ------------------------------------------------------------------------
\* runMonitoring (part_007): the continuation after Promise.allSettled
\* ------------------------------------------------------------------------
\* a batch wait that only a batch without failure gets past
BatchDone_NoFailure(prbs, b) ==
  \A p \in prbs :
    p.batch = b => (p.phase = "done" /\ p.resp.kind \in {"data", "nokey"})

\* Promise.allSettled(promises) has resolved
BatchDone(prbs, b) == \A p \in prbs : p.batch = b => p.phase = "done"

\* drivers that can never run again are dropped from the state
LiveDrivers(drvs, tms) ==
  {d \in drvs :
     /\ d.pc # "done"
     /\ d.pc = "sleep" => \E t \in tms : t.owner = d.id}

ResumeAfterBatch(drvs, prbs, tms, iref) ==
  LET ready == {d \in drvs : d.pc = "batch" /\ BatchDone(prbs, d.batch)}
      sleepers == {d \in ready : ~d.cancelled}
      drvs1 == (drvs \ ready)
                 \cup {[d EXCEPT !.pc = "sleep"] : d \in sleepers}
      tms1 == tms \cup {[id |-> d.batch, owner |-> d.id] : d \in sleepers}
      iref1 == IF sleepers = {} THEN iref
               ELSE CHOOSE b \in {d.batch : d \in sleepers} :
                      \A c \in {d.batch : d \in sleepers} : c <= b
  IN [drivers |-> LiveDrivers(drvs1, tms1), timers |-> tms1,
      intervalRef |-> iref1]

\* a cleanup that forgets isCancelled = true
CancelDrivers_Forgotten(drvs) == drvs

\* the cleanup of an effect sets its isCancelled
CancelDrivers(drvs) == {[d EXCEPT !.cancelled = TRUE] : d \in drvs}

\* controllers matter only while one of their probes is unsettled
AbortedLive(ab, prbs) == {c \in ab : \E p \in Unsettled(prbs) : p.ctrl = c}

RefSet(r) == IF r = 0 THEN {} ELSE {r}

ClearTimeout(tms, iref) == {t \in tms : t.id # iref}

\* ------------------------------------------------------------------------
\* SettingsPage: handlePing
\* ------------------------------------------------------------------------
\* Object.keys(PROVIDER_INFO), a sample in declaration order
PROVIDER_INFO == << "GROQ_API_KEY", "GOOGLE_API_KEY" >>

ProviderNames == {PROVIDER_INFO[n] : n \in 1..Len(PROVIDER_INFO)}

NoKeyResult(k) ==
  [provider |-> k, status |-> "error", latency |-> {},
   message |-> {"No API key"}]

KeyNotFoundResult(k) ==
  [provider |-> k, status |-> "error", latency |-> {},
   message |-> {"API key not found"}]

PendingResult(k) ==
  [provider |-> k, status |-> "pending", latency |-> {}, message |-> {}]

PingFailedResult(k) ==
  [provider |-> k, status |-> "error", latency |-> {},
   message |-> {"Ping failed"}]

\* the entry written after res.json()
DataResult(k, data) ==
  [provider |-> k, status |-> IF data.success THEN "success" ELSE "error",
   latency |-> data.latency, message |-> data.message]

\* results[results.length - 1] = r
ReplaceLast(results, r) == [results EXCEPT ![Len(results)] = r]

\* the bodies the route /api/ping can answer a probe of provider k with
ProviderRouteData(k) ==
  {PingProviderOutcome(k, ev, FALSE) : ev \in MonitorEvents}

RECURSIVE HandlePingLoop(_, _)
\* the for loop of handlePing from provider run.pos on, up to its next await
\* or its end; run.keys is the `keys` state the callback closed over, ls the
\* names localStorage holds now
HandlePingLoop(run, ls) ==
  IF run.pos > Len(PROVIDER_INFO) THEN [run EXCEPT !.phase = "done"]
  ELSE LET k == PROVIDER_INFO[run.pos]
       IN IF k \notin run.keys
            THEN HandlePingLoop(
                   [run EXCEPT !.pos = @ + 1,
                               !.results = Append(@, NoKeyResult(k))], ls)
          ELSE IF k \notin ls
            THEN HandlePingLoop(
                   [run EXCEPT !.pos = @ + 1,
                               !.results = Append(@, KeyNotFoundResult(k))], ls)
          ELSE [run EXCEPT !.phase = "fetch",
                           !.results = Append(@, PendingResult(k))]

\* handlePing() up to its first await; by: who called it
StartHandlePing(b, by, ks, ls) ==
  HandlePingLoop([id |-> b, by |-> by, keys |-> ks, pos |-> 1,
                  phase |-> "loop", results |-> << >>], ls)

\* the awaited request is over with entry r; the loop goes on
ContinueHandlePing(run, r, ls) ==
  HandlePingLoop([run EXCEPT !.pos = @ + 1,
                             !.results = ReplaceLast(@, r)], ls)

\* a cleanup that leaves the interval armed
ClearInterval_Forgotten(tms, iref) == tms

\* clearInterval(intervalRef.current)
ClearInterval(tms, iref) == {t \in tms : t.id # iref}

\* ------------------------------------------------------------------------
\* Init
\* ------------------------------------------------------------------------
\* the arguments one invocation of a probe function may be called with
InvocationInputs(fn) ==
  [provider : CASE fn = "pingModel" -> {"groq", "googleai", "together"}
                [] fn = "pingProvider" ->
                     {"GROQ_API_KEY", "GOOGLE_API_KEY", "FIREWORKS_API_KEY"}
                [] OTHER -> {"groq"},
   apiKey : {"", "sk"}]

NoEvent == [kind |-> "none", code |-> 0, latency |-> 0]

NoRequest ==
  [method |-> "", url |-> "", credential |-> "none", envelope |-> "none",
   text |-> "", maxTokens |-> 0]

NewInvocation(in) ==
  [provider |-> in.provider, apiKey |-> in.apiKey, phase |-> "idle",
   overBudget |-> FALSE, timer |-> FALSE, sigAborted |-> FALSE,
   requests |-> 0, request |-> NoRequest, ev |-> NoEvent,
   result |-> NoData, results |-> 0]

NoInvocation == [NewInvocation([provider |-> "", apiKey |-> ""])
                   EXCEPT !.phase = "none"]

\* a call of getAvg / getVerdict on result, neither of which has returned
NewCall(result) ==
  [modelResult |-> result, avg |-> {}, verdict |-> {}] @@ NoInvocation

\* the pages before anything was clicked
PagesIdle ==
  /\ liveMonitoring = FALSE
  /\ search = ""
  /\ selectedProvider = ""
  /\ pingStatuses = [k \in {} |-> Pending]
  /\ probes = {}
  /\ drivers = {}
  /\ aborted = {}
  /\ pingAbortControllerRef = 0
  /\ intervalRef = 0
  /\ timers = {}
  /\ currentIndex = 0
  /\ nextBatch = 1
  /\ runs = {}
  /\ pingResults = << >>
  /\ pinging = FALSE

\* the data layer before any call: an empty globalCache, no service
DataIdle ==
  /\ clock = 0
  /\ cache = NoEntries
  /\ written = << >>
  /\ returned = NoReturn

Init ==
  /\ component \in Components
  /\ IF component \in Monitors
       THEN /\ apiKeys \in SUBSET ProviderKeys
            /\ invocation = NoInvocation
     ELSE IF component = "settings"
       THEN /\ apiKeys \in SUBSET ProviderNames
            /\ invocation = NoInvocation
     ELSE IF component \in ResultFunctions
       THEN /\ apiKeys = {}
            /\ invocation \in {NewCall(result) : result \in ModelResults}
       ELSE /\ apiKeys = {}
            /\ invocation \in
                 {NewInvocation(in) : in \in InvocationInputs(component)}
  /\ PagesIdle
  /\ DataIdle
  /\ services = << >>

\* ------------------------------------------------------------------------
\* ExplorerPage (part_007): the live monitoring effect
\* ------------------------------------------------------------------------
\* One commit: the cleanup of the previous effect, then the effect body for
\* the new render (live, list).  ab0/ref0/tm0/iref0 are the controller and
\* timer state the event handler left behind.
Effect7(live, list, ab0, ref0, tm0, iref0) ==
  LET drv1 == CancelDrivers(drivers)
      ab1 == ab0 \cup RefSet(ref0)
      tm1 == ClearTimeout(tm0, iref0)
      start == live /\ list # {}
      b == nextBatch
      prb1 == IF start THEN Unsettled(probes) \cup LaunchedProbes(list, b, b)
              ELSE probes
      drv2 == IF start
                THEN drv1 \cup {[id |-> b, cancelled |-> FALSE, pc |-> "batch",
                                 list |-> list, batch |-> b]}
                ELSE drv1
      r == ResumeAfterBatch(drv2, prb1, tm1, 0)
  IN /\ start => CanLaunch(list)
     /\ probes' = prb1
     /\ pingStatuses' = IF start THEN StatusesAfterLaunch(pingStatuses, list)
                        ELSE pingStatuses
     /\ drivers' = r.drivers
     /\ timers' = r.timers
     /\ intervalRef' = r.intervalRef
     /\ aborted' = AbortedLive(ab1, prb1)
     /\ pingAbortControllerRef' = IF start THEN b ELSE 0
     /\ nextBatch' = IF start THEN b + 1 ELSE nextBatch

\* the timer callback resolves the sleep; the driver loops
TimerFires7 ==
  /\ component = "explorer"
  /\ \E t \in timers :
       LET tm1 == timers \ {t}
           ds == {d \in drivers : d.id = t.owner /\ d.pc = "sleep"}
           go == {d \in ds : ~d.cancelled /\ d.list # {}}
           b == nextBatch
           list == UNION {d.list : d \in go}
           prb1 == IF go = {} THEN probes
                   ELSE Unsettled(probes) \cup LaunchedProbes(list, b, b)
           drv1 == (drivers \ ds)
                     \cup {[d EXCEPT !.pc = "batch", !.batch = b] : d \in go}
           r == ResumeAfterBatch(drv1, prb1, tm1, intervalRef)
       IN /\ go # {} => CanLaunch(list)
          /\ probes' = prb1
          /\ pingStatuses' = IF go = {} THEN pingStatuses
                             ELSE StatusesAfterLaunch(pingStatuses, list)
          /\ drivers' = r.drivers
          /\ timers' = r.timers
          /\ intervalRef' = r.intervalRef
          /\ aborted' = AbortedLive(aborted, prb1)
          /\ pingAbortControllerRef' =
               IF go = {} THEN pingAbortControllerRef ELSE b
          /\ nextBatch' = IF go = {} THEN nextBatch ELSE b + 1
  /\ UNCHANGED << component, liveMonitoring, search, selectedProvider,
                  apiKeys, currentIndex, invocation, SettingsVars, DataVars >>

\* toggleLiveMonitoring, then the commit it causes
ToggleLiveMonitoring7 ==
  /\ component = "explorer"
  /\ liveMonitoring' = ~liveMonitoring
  /\ IF liveMonitoring
       THEN Effect7(FALSE, filteredModels(search, selectedProvider),
                    aborted \cup RefSet(pingAbortControllerRef), 0,
                    ClearTimeout(timers, intervalRef), 0)
       ELSE Effect7(TRUE, filteredModels(search, selectedProvider),
                    aborted, pingAbortControllerRef, timers, intervalRef)
  /\ UNCHANGED << component, search, selectedProvider, apiKeys,
                  currentIndex, invocation, SettingsVars, DataVars >>

\* ------------------------------------------------------------------------
\* ExplorerPage (app/explorer/page.tsx): the live monitoring effect
\* ------------------------------------------------------------------------
EffectLegacy(live, list) ==
  LET tm1 == ClearTimeout(timers, intervalRef)
      start == live /\ list # {}
      b == nextBatch
      prb1 == IF start THEN Unsettled(probes) \cup LaunchedProbes(list, b, 0)
              ELSE probes
  IN /\ start => CanLaunch(list)
     /\ probes' = prb1
     /\ pingStatuses' = IF start THEN StatusesAfterLaunch(pingStatuses, list)
                        ELSE pingStatuses
     /\ timers' = IF start THEN tm1 \cup {[id |-> b, owner |-> 0]} ELSE tm1
     /\ intervalRef' = IF start THEN b ELSE 0
     /\ nextBatch' = IF start THEN b + 1 ELSE nextBatch
     /\ UNCHANGED << drivers, aborted, pingAbortControllerRef >>

\* the timer callback bumps currentIndex, which re-runs the effect
TimerFiresLegacy ==
  /\ component = "legacy"
  /\ \E t \in timers :
       LET tm1 == ClearTimeout(timers \ {t}, intervalRef)
           list == filteredModels(search, selectedProvider)
           start == liveMonitoring /\ list # {}
           b == nextBatch
           prb1 == IF start
                     THEN Unsettled(probes) \cup LaunchedProbes(list, b, 0)
                     ELSE probes
       IN /\ start => CanLaunch(list)
          /\ probes' = prb1
          /\ pingStatuses' =
               IF start THEN StatusesAfterLaunch(pingStatuses, list)
               ELSE pingStatuses
          /\ timers' = IF start THEN tm1 \cup {[id |-> b, owner |-> 0]}
                       ELSE tm1
          /\ intervalRef' = IF start THEN b ELSE 0
          /\ nextBatch' = IF start THEN b + 1 ELSE nextBatch
  /\ currentIndex' = currentIndex + 1
  /\ UNCHANGED << component, liveMonitoring, search, selectedProvider,
                  apiKeys, drivers, aborted,
                  pingAbortControllerRef, invocation, SettingsVars, DataVars >>

ToggleLiveMonitoringLegacy ==
  /\ component = "legacy"
  /\ liveMonitoring' = ~liveMonitoring
  /\ currentIndex' = IF liveMonitoring THEN currentIndex ELSE 0
  /\ EffectLegacy(~liveMonitoring, filteredModels(search, selectedProvider))
  /\ UNCHANGED << component, search, selectedProvider, apiKeys,
                  invocation, SettingsVars, DataVars >>

\* ------------------------------------------------------------------------
\* Filter and sort controls (both ExplorerPage versions)
\* ------------------------------------------------------------------------
\* an effect that keeps the filteredModels array of the earlier render
Rerun_StaleList(list) ==
  IF component = "explorer"
    THEN Effect7(liveMonitoring, filteredModels(search, selectedProvider),
                 aborted, pingAbortControllerRef, timers, intervalRef)
    ELSE EffectLegacy(liveMonitoring, filteredModels(search, selectedProvider))

\* a new filteredModels array re-runs the effect
Rerun(list) ==
  IF component = "explorer"
    THEN Effect7(liveMonitoring, list, aborted, pingAbortControllerRef,
                 timers, intervalRef)
    ELSE EffectLegacy(liveMonitoring, list)

SetSearch ==
  /\ component \in Monitors
  /\ \E s \in SearchTexts \ {search} :
       /\ search' = s
       /\ Rerun(filteredModels(s, selectedProvider))
  /\ UNCHANGED << component, liveMonitoring, selectedProvider,
                  apiKeys, currentIndex, invocation, SettingsVars, DataVars >>

SetSelectedProvider ==
  /\ component \in Monitors
  /\ \E pr \in ProviderFilters \ {selectedProvider} :
       /\ selectedProvider' = pr
       /\ Rerun(filteredModels(search, pr))
  /\ UNCHANGED << component, liveMonitoring, search, apiKeys,
                  currentIndex, invocation, SettingsVars, DataVars >>

\* sortBy / sortDir only reorder filteredModels, which is a set here
SetSortDir ==
  /\ component \in Monitors
  /\ Rerun(filteredModels(search, selectedProvider))
  /\ UNCHANGED << component, liveMonitoring, search, selectedProvider,
                  apiKeys, currentIndex, invocation, SettingsVars, DataVars >>

\* ------------------------------------------------------------------------
\* pingModel: what happens to one request
\* ------------------------------------------------------------------------
\* the state after probe p became q and the status map became st
AfterProbe(p, q, st) ==
  LET prb1 == (probes \ {p}) \cup {q}
      r == ResumeAfterBatch(drivers, prb1, timers, intervalRef)
  IN /\ probes' = prb1
     /\ pingStatuses' = st
     /\ drivers' = r.drivers
     /\ timers' = r.timers
     /\ intervalRef' = r.intervalRef
     /\ aborted' = AbortedLive(aborted, prb1)
     /\ UNCHANGED << component, liveMonitoring, search, selectedProvider,
                     apiKeys, pingAbortControllerRef, currentIndex,
                     nextBatch, invocation, SettingsVars, DataVars >>

\* fetch resolves: the response headers arrived
HeadersArrive ==
  \E p \in probes :
    /\ p.phase = "fetch"
    /\ p.ctrl \notin aborted
    /\ AfterProbe(p, [p EXCEPT !.phase = "json"], pingStatuses)

\* res.json() resolves with the body of the route
BodyArrive ==
  \E p \in probes :
    /\ p.phase = "json"
    /\ p.ctrl \notin aborted
    /\ \E data \in RouteData(p.idx) :
         AfterProbe(p, Settle(p, "data", data, 1),
                    SetStatus(pingStatuses, Key(p.idx), DataEntry(data)))

\* res.json() rejects with a SyntaxError
BodyUnparsable ==
  \E p \in probes :
    /\ p.phase = "json"
    /\ p.ctrl \notin aborted
    /\ AfterProbe(p, Rejected(p, "badjson"),
                  RejectedStatuses(pingStatuses, p))

\* fetch or the body stream fails with a transport error
NetworkError ==
  \E p \in probes :
    /\ p.phase \in {"fetch", "json"}
    /\ p.ctrl \notin aborted
    /\ AfterProbe(p, Rejected(p, "neterr"),
                  RejectedStatuses(pingStatuses, p))

\* the pending await rejects with the AbortError of an aborted signal
AbortSettle ==
  \E p \in probes :
    /\ p.phase \in {"fetch", "json"}
    /\ p.ctrl \in aborted
    /\ AfterProbe(p, Settle(p, "aborted", NoData, 0),
                  CatchStatuses(pingStatuses, p, TRUE))

\* ------------------------------------------------------------------------
\* SettingsPage: live monitoring effect, buttons, key editing
\* ------------------------------------------------------------------------
\* the state after run r reached its next await (or its end) as r1
AfterRun(r, r1, started) ==
  /\ runs' = (runs \ {r}) \cup (IF r1.phase = "done" THEN {} ELSE {r1})
  /\ pingResults' = r1.results
  /\ pinging' = IF r1.phase = "done" THEN FALSE
                ELSE IF started THEN TRUE ELSE pinging

CanStartRun ==
  /\ nextBatch <= MaxBatches
  /\ Cardinality(runs) < MaxInFlight

\* an effect that arms the interval without the handlePing() call before it
EffectSettings_IntervalOnly(live, ls) ==
  /\ live => CanStartRun
  /\ timers' = IF live
                 THEN ClearInterval(timers, intervalRef)
                        \cup {[id |-> nextBatch, owner |-> 0]}
               ELSE ClearInterval(timers, intervalRef)
  /\ intervalRef' = IF live THEN nextBatch ELSE 0
  /\ nextBatch' = IF live THEN nextBatch + 1 ELSE nextBatch
  /\ UNCHANGED SettingsVars

\* One commit: the cleanup of the previous effect, then the effect body for
\* the new render (live, handlePing closed over the keys ls)
EffectSettings(live, ls) ==
  LET tm1 == ClearInterval(timers, intervalRef)
      b == nextBatch
      r1 == StartHandlePing(b, "monitor", ls, ls)
  IN /\ live => CanStartRun
     /\ timers' = IF live THEN tm1 \cup {[id |-> b, owner |-> 0]} ELSE tm1
     /\ intervalRef' = IF live THEN b ELSE 0
     /\ nextBatch' = IF live THEN b + 1 ELSE nextBatch
     /\ IF live THEN AfterRun(r1, r1, TRUE)
        ELSE UNCHANGED SettingsVars

SettingsFixed ==
  << component, search, selectedProvider, pingStatuses, probes, drivers,
     aborted, pingAbortControllerRef, currentIndex, invocation, DataVars >>

ToggleLiveMonitoringSettings ==
  /\ component = "settings"
  /\ liveMonitoring' = ~liveMonitoring
  /\ EffectSettings(~liveMonitoring, apiKeys)
  /\ UNCHANGED << apiKeys, SettingsFixed >>

\* the setInterval callback: handlePing(), the interval stays armed
IntervalFires ==
  /\ component = "settings"
  /\ timers # {}
  /\ CanStartRun
  /\ LET r1 == StartHandlePing(nextBatch, "monitor", apiKeys, apiKeys)
     IN AfterRun(r1, r1, TRUE)
  /\ nextBatch' = nextBatch + 1
  /\ UNCHANGED << liveMonitoring, apiKeys, timers, intervalRef,
                  SettingsFixed >>

\* the button "Test All Connections", disabled={pinging || liveMonitoring}
TestAllConnections ==
  /\ component = "settings"
  /\ ~pinging /\ ~liveMonitoring
  /\ CanStartRun
  /\ LET r1 == StartHandlePing(nextBatch, "button", apiKeys, apiKeys)
     IN AfterRun(r1, r1, TRUE)
  /\ nextBatch' = nextBatch + 1
  /\ UNCHANGED << liveMonitoring, apiKeys, timers, intervalRef,
                  SettingsFixed >>

\* saveKey, loadKeys: the new `keys` object gives a new handlePing, which
\* re-runs the effect
SaveKey ==
  /\ component = "settings"
  /\ \E k \in ProviderNames :
       /\ apiKeys' = apiKeys \cup {k}
       /\ EffectSettings(liveMonitoring, apiKeys \cup {k})
  /\ UNCHANGED << liveMonitoring, SettingsFixed >>

\* deleteKey, loadKeys
DeleteKey ==
  /\ component = "settings"
  /\ \E k \in apiKeys :
       /\ apiKeys' = apiKeys \ {k}
       /\ EffectSettings(liveMonitoring, apiKeys \ {k})
  /\ UNCHANGED << liveMonitoring, SettingsFixed >>

SettingsRequestVars ==
  << liveMonitoring, apiKeys, timers, intervalRef, nextBatch, SettingsFixed >>

\* fetch('/api/ping') resolves
HandlePingFetched ==
  /\ \E r \in runs :
       /\ r.phase = "fetch"
       /\ runs' = (runs \ {r}) \cup {[r EXCEPT !.phase = "json"]}
  /\ UNCHANGED << pingResults, pinging, SettingsRequestVars >>

\* res.json() resolves with the body of the route
HandlePingData ==
  /\ \E r \in runs :
       /\ r.phase = "json"
       /\ \E data \in ProviderRouteData(PROVIDER_INFO[r.pos]) :
            AfterRun(r, ContinueHandlePing(
                          r, DataResult(PROVIDER_INFO[r.pos], data), apiKeys),
                     FALSE)
  /\ UNCHANGED SettingsRequestVars

\* the catch block: fetch or res.json() rejected
HandlePingCatch ==
  /\ \E r \in runs :
       /\ r.phase \in {"fetch", "json"}
       /\ AfterRun(r, ContinueHandlePing(
                        r, PingFailedResult(PROVIDER_INFO[r.pos]), apiKeys),
                   FALSE)
  /\ UNCHANGED SettingsRequestVars

\* ------------------------------------------------------------------------
\* One invocation of a probe function
\* ------------------------------------------------------------------------
MonitorVars ==
  << liveMonitoring, search, selectedProvider, apiKeys, pingStatuses, probes,
     drivers, aborted, pingAbortControllerRef, intervalRef, timers,
     currentIndex, nextBatch, runs, pingResults, pinging,
     DataVars >>

\* a route that sends the Google AI URL with the OpenAI-compatible request
RouteRequest_Mixed(fn, provider) ==
  [method |-> "POST",
   url |-> IF (fn = "pingModel" /\ provider = "googleai")
                \/ (fn = "pingProvider" /\ provider = "GOOGLE_API_KEY")
             THEN "<endpoint>/<modelId>:generateContent"
             ELSE "<endpoint>",
   credential |-> "header", envelope |-> "openai",
   text |-> "ping", maxTokens |-> 5]

\* the request a route sends to the provider: fetch(`${url}?key=${apiKey}`)
\* with body {contents, generationConfig: {maxOutputTokens: 5}} for Google
\* AI, fetch(config.url) with the Authorization header and body
\* {model, messages: [user 'ping'], max_tokens: 5} for the others
RouteRequest(fn, provider) ==
  IF (fn = "pingModel" /\ provider = "googleai")
       \/ (fn = "pingProvider" /\ provider = "GOOGLE_API_KEY")
    THEN [method |-> "POST", url |-> "<endpoint>/<modelId>:generateContent",
          credential |-> "query", envelope |-> "google",
          text |-> "ping", maxTokens |-> 5]
    ELSE [method |-> "POST", url |-> "<endpoint>",
          credential |-> "header", envelope |-> "openai",
          text |-> "ping", maxTokens |-> 5]

KnownToRoute(fn, provider) ==
  IF fn = "pingModel" THEN provider \in PROVIDER_CONFIGS
  ELSE provider \in PROVIDER_ENDPOINTS

RouteOutcome(fn, provider, ev, textFails) ==
  IF fn = "pingModel" THEN PingModelOutcome(provider, ev)
  ELSE PingProviderOutcome(provider, ev, textFails)

\* the request ping() sends to the url it was given: Authorization only when
\* apiKey is truthy, body {model, messages: [user 'hi'], max_tokens: 1}
PingRequest(apiKey) ==
  [method |-> "POST", url |-> "<endpoint>",
   credential |-> IF apiKey # "" THEN "header" ELSE "none",
   envelope |-> "openai", text |-> "hi", maxTokens |-> 1]

Finish(inv, ev, result) ==
  [inv EXCEPT !.phase = "done", !.ev = ev, !.result = result,
              !.results = @ + 1, !.timer = FALSE]

\* POST of a route, up to the fetch inside pingModel / pingProvider
InvokeRoute ==
  /\ component \in {"pingModel", "pingProvider"}
  /\ invocation.phase = "idle"
  /\ invocation' =
       IF invocation.apiKey = ""
         THEN Finish(invocation, NoEvent, ApiKeyNotProvided)
       ELSE IF ~KnownToRoute(component, invocation.provider)
         THEN Finish(invocation, NoEvent,
                     RouteOutcome(component, invocation.provider, NoEvent,
                                  FALSE))
       ELSE [invocation EXCEPT
               !.phase = "wait", !.requests = @ + 1,
               !.request = RouteRequest(component, invocation.provider)]
  /\ UNCHANGED << component, MonitorVars >>

\* ping(), up to the await of the fetch
InvokePing ==
  /\ component = "ping"
  /\ invocation.phase = "idle"
  /\ invocation' = [invocation EXCEPT
                      !.phase = "wait", !.timer = TRUE, !.requests = @ + 1,
                      !.request = PingRequest(invocation.apiKey)]
  /\ UNCHANGED << component, MonitorVars >>

\* the provider answers with a status line
ProviderResponds ==
  /\ component \in ProbeFunctions
  /\ invocation.phase = "wait"
  /\ ~invocation.sigAborted
  /\ \E code \in StatusCodes, lat \in Latencies, textFails \in BOOLEAN :
       LET ev == [kind |-> "status", code |-> code, latency |-> lat]
       IN invocation' =
            Finish(invocation, ev,
                   IF component = "ping" THEN PingResolved(ev)
                   ELSE RouteOutcome(component, invocation.provider, ev,
                                     textFails))
  /\ UNCHANGED << component, MonitorVars >>

\* the fetch rejects: DNS, refused or reset connection, TLS
TransportError ==
  /\ component \in ProbeFunctions
  /\ invocation.phase = "wait"
  /\ ~invocation.sigAborted
  /\ \E lat \in Latencies, messageHasAbort \in BOOLEAN :
       LET ev == [kind |-> "neterr", code |-> 0, latency |-> lat]
       IN invocation' =
            Finish(invocation, ev,
                   IF component = "ping"
                     THEN PingCaught(FALSE, messageHasAbort, lat)
                     ELSE RouteOutcome(component, invocation.provider, ev,
                                       FALSE))
  /\ UNCHANGED << component, MonitorVars >>

\* DEFAULT_PING_TIMEOUT has passed since the request was sent; only ping()
\* has armed a timer, whose callback aborts the request
BudgetElapses ==
  /\ component \in ProbeFunctions
  /\ invocation.phase = "wait"
  /\ ~invocation.overBudget
  /\ invocation' =
       [invocation EXCEPT
          !.overBudget = TRUE,
          !.sigAborted = invocation.timer,
          !.timer = FALSE]
  /\ UNCHANGED << component, MonitorVars >>

\* the fetch of ping() rejects with the AbortError of its own controller
AbortRejects ==
  /\ component \in ProbeFunctions
  /\ invocation.phase = "wait"
  /\ invocation.sigAborted
  /\ invocation' = Finish(invocation, NoEvent, PingCaught(TRUE, FALSE, 0))
  /\ UNCHANGED << component, MonitorVars >>

\* ------------------------------------------------------------------------
\* One call of getAvg / getVerdict
\* ------------------------------------------------------------------------
CallGetAvg ==
  /\ component \in ResultFunctions
  /\ invocation.avg = {}
  /\ invocation' = [invocation EXCEPT !.avg = {getAvg(invocation.modelResult)}]
  /\ UNCHANGED << component, MonitorVars >>

CallGetVerdict ==
  /\ component \in ResultFunctions
  /\ invocation.verdict = {}
  /\ invocation' =
       [invocation EXCEPT !.verdict = {getVerdict(invocation.modelResult)}]
  /\ UNCHANGED << component, MonitorVars >>

\* ------------------------------------------------------------------------
\* Data layer: calls on a DataCache
\* ------------------------------------------------------------------------
DataComponents ==
  {"DataCache", "DataService", "filterByTier", "validateModelTuples"}

\* keys, values and per-call TTLs the callers of the cache use
CacheKeys == {"a", "b"}

CacheValues == {"x", "y"}

CallTtls == {{}, {0}, {1}}

PagesFixed ==
  << component, liveMonitoring, search, selectedProvider, apiKeys,
     pingStatuses, probes, drivers, aborted, pingAbortControllerRef,
     intervalRef, timers, currentIndex, nextBatch, invocation, SettingsVars >>

\* time passes
Tick ==
  /\ component \in {"DataCache", "DataService"}
  /\ clock < MaxClock
  /\ clock' = clock + 1
  /\ returned' = NoReturn
  /\ UNCHANGED << cache, services, written, PagesFixed >>

DataCacheSet ==
  /\ component = "DataCache"
  /\ \E key \in CacheKeys, data \in CacheValues, ttl \in CallTtls :
       /\ cache' = CacheSet(cache, key, data, ttl, clock)
       /\ written' = (key :> [data |-> data, at |-> clock, ttl |-> ttl])
                        @@ written
       /\ returned' = [NoReturn EXCEPT !.op = "set", !.key = key]
  /\ UNCHANGED << clock, services, PagesFixed >>

DataCacheGet ==
  /\ component = "DataCache"
  /\ \E key \in CacheKeys :
       LET r == CacheGet(cache, key, clock)
       IN /\ cache' = r.cache
          /\ returned' = [NoReturn EXCEPT !.op = "get", !.key = key,
                                          !.value = r.value]
  /\ UNCHANGED << clock, services, written, PagesFixed >>

DataCacheDelete ==
  /\ component = "DataCache"
  /\ \E key \in CacheKeys :
       /\ cache' = CacheDelete(cache, key)
       /\ written' = [k \in DOMAIN written \ {key} |-> written[k]]
       /\ returned' = [NoReturn EXCEPT !.op = "delete", !.key = key]
  /\ UNCHANGED << clock, services, PagesFixed >>

DataCacheClear ==
  /\ component = "DataCache"
  /\ cache' = CacheClear(cache)
  /\ written' = << >>
  /\ returned' = [NoReturn EXCEPT !.op = "clear"]
  /\ UNCHANGED << clock, services, PagesFixed >>

\* the provider and the tier the callers ask for
ProviderArgs == {"groq"}

TierArgs == {"S"}

FallbackConfigs == {<< >>, FallbackCatalog}

\* the service of s after the call r returned
ServiceReturns(op, s, key, r) ==
  /\ cache' = r.cache
  /\ returned' = [op |-> op, svc |-> s, key |-> key,
                  value |-> IF r.threw THEN {} ELSE {r.value},
                  threw |-> r.threw, warned |-> r.warned]
  /\ UNCHANGED << clock, services, written, PagesFixed >>

ServiceGetModels ==
  /\ component = "DataService"
  /\ \E s \in DOMAIN services :
       ServiceReturns("getModels", s, "", GetModels(services[s], cache, clock))

ServiceGetModelsByProvider ==
  /\ component = "DataService"
  /\ \E s \in DOMAIN services, pk \in ProviderArgs :
       ServiceReturns("getModelsByProvider", s, pk,
                      GetModelsByProvider(services[s], cache, clock, pk))

ServiceGetModelsByTier ==
  /\ component = "DataService"
  /\ \E s \in DOMAIN services, t \in TierArgs :
       ServiceReturns("getModelsByTier", s, t,
                      GetModelsByTier(services[s], cache, clock, t))

\* DataService.setSource
SetSource ==
  /\ component = "DataService"
  /\ \E s \in DOMAIN services, src \in Sources :
       services' = [services EXCEPT ![s].source = src]
  /\ returned' = NoReturn
  /\ UNCHANGED << clock, cache, written, PagesFixed >>

\* initializeDataService(source, config): a new global service
InitializeDataService ==
  /\ component = "DataService"
  /\ \E src \in Sources, fb \in FallbackConfigs :
       services' = [services EXCEPT ![1] = [NewService(fb) EXCEPT
                                              !.source = src]]
  /\ returned' = NoReturn
  /\ UNCHANGED << clock, cache, written, PagesFixed >>

\* DataService.clearCache
ClearCache ==
  /\ component = "DataService"
  /\ cache' = CacheClear(cache)
  /\ returned' = NoReturn
  /\ UNCHANGED << clock, services, written, PagesFixed >>

\* filterByTier(results, tierLetter) returns
CallFilterByTier ==
  /\ component = "filterByTier"
  /\ \E tierLetter \in TierLetters :
       returned' = [NoReturn EXCEPT
                      !.op = "filterByTier", !.key = tierLetter,
                      !.value = filterByTier(invocation.results, tierLetter)]
  /\ UNCHANGED << clock, cache, services, written, PagesFixed >>

\* the items callers hand to validateModelTuples: tuples of the bundled
\* MODELS, a tuple of five elements, a tuple with a tier outside the
\* schema, an array that is too short and a value that is not an array
DataLists ==
  LET items == {MODELS_PerSource[1], MODELS_PerSource[2],
                MODELS_PerSource[9],
                [modelId |-> "m5", tier |-> "A"],
                [modelId |-> "m6", tier |-> "E", providerKey |-> "groq"],
                [length |-> 4],
                [typeof |-> "string"]}
  IN {MODELS_PerSource} \cup UNION {[1..n -> items] : n \in 0..MaxTuples}

\* validateModelTuples(data) returns
CallValidateModelTuples ==
  /\ component = "validateModelTuples"
  /\ returned' = [NoReturn EXCEPT
                    !.op = "validateModelTuples",
                    !.value = {validateModelTuples(invocation.data)}]
  /\ UNCHANGED << clock, cache, services, written, PagesFixed >>

\* a DataCache under direct calls, a call of filterByTier or of
\* validateModelTuples that has not returned yet, or the global service of
\* getDataService() beside a second service on the same globalCache
InitData ==
  /\ component \in DataComponents
  /\ apiKeys = {}
  /\ IF component = "filterByTier"
       THEN invocation \in {[results |-> results] @@ NoInvocation :
                               results \in ResultLists}
     ELSE IF component = "validateModelTuples"
       THEN invocation \in {[data |-> data] @@ NoInvocation :
                               data \in DataLists}
     ELSE invocation = NoInvocation
  /\ PagesIdle
  /\ DataIdle
  /\ IF component = "DataService"
       THEN services \in {<< NewService(<< >>), NewService(fb) >> :
                             fb \in FallbackConfigs}
       ELSE services = << >>

NextData ==
  \/ Tick
  \/ DataCacheSet
  \/ DataCacheGet
  \/ DataCacheDelete
  \/ DataCacheClear
  \/ ServiceGetModels
  \/ ServiceGetModelsByProvider
  \/ ServiceGetModelsByTier
  \/ SetSource
  \/ InitializeDataService
  \/ ClearCache
  \/ CallFilterByTier
  \/ CallValidateModelTuples

SpecData == InitData /\ [][NextData]_vars

\* ------------------------------------------------------------------------
\* Specification
\* ------------------------------------------------------------------------
Next ==
  \/ ToggleLiveMonitoring7
  \/ TimerFires7
  \/ ToggleLiveMonitoringLegacy
  \/ TimerFiresLegacy
  \/ SetSearch
  \/ SetSelectedProvider
  \/ SetSortDir
  \/ HeadersArrive
  \/ BodyArrive
  \/ BodyUnparsable
  \/ NetworkError
  \/ AbortSettle
  \/ ToggleLiveMonitoringSettings
  \/ IntervalFires
  \/ TestAllConnections
  \/ SaveKey
  \/ DeleteKey
  \/ HandlePingFetched
  \/ HandlePingData
  \/ HandlePingCatch
  \/ InvokeRoute
  \/ InvokePing
  \/ ProviderResponds
  \/ TransportError
  \/ BudgetElapses
  \/ AbortRejects
  \/ CallGetAvg
  \/ CallGetVerdict

Spec == Init /\ [][Next]_vars

\* ------------------------------------------------------------------------
\* ExplorerPage (part_007) under fair scheduling
\* ------------------------------------------------------------------------
InitExplorer ==
  /\ component = "explorer"
  /\ apiKeys \in SUBSET ProviderKeys
  /\ invocation = NoInvocation
  /\ PagesIdle
  /\ DataIdle
  /\ services = << >>

\* the user stops and starts, changes the filter through the search box and
\* re-sorts; the provider filter stays on "all"
NextExplorer ==
  \/ ToggleLiveMonitoring7
  \/ TimerFires7
  \/ SetSearch
  \/ SetSortDir
  \/ HeadersArrive
  \/ BodyArrive
  \/ BodyUnparsable
  \/ NetworkError
  \/ AbortSettle

\* an armed setTimeout fires, a request that is out fails at the latest when
\* the transport gives up, and an aborted request rejects; nothing makes a
\* provider answer or the user act
SpecFair ==
  /\ InitExplorer
  /\ [][NextExplorer]_vars
  /\ WF_vars(TimerFires7)
  /\ WF_vars(NetworkError)
  /\ WF_vars(AbortSettle)

\* ------------------------------------------------------------------------
\* Vocabulary of the properties
\* ------------------------------------------------------------------------
\* a request that is out and whose signal (if any) has not been aborted
InFlight(p) == p.phase # "done" /\ p.ctrl \notin aborted

\* the implementations of the monitoring loop with an AbortController
Cancellable == {"explorer"}

\* C1: while monitoring stays stopped, no step changes the status map - a
\* probe launched before the stop writes nothing after it.
C1_NoWriteAfterStop ==
  [][(~liveMonitoring /\ ~liveMonitoring') => pingStatuses' = pingStatuses]_vars

\* C1 for the implementation that passes an AbortSignal to pingModel.
C1_NoWriteAfterStopCancellable ==
  [][(component \in Cancellable /\ ~liveMonitoring /\ ~liveMonitoring')
       => pingStatuses' = pingStatuses]_vars

\* a stop caught probes in flight: headers pending and body being parsed
C1_StoppedInFlight ==
  /\ component \in Cancellable
  /\ ~liveMonitoring
  /\ \E p \in probes : p.phase = "fetch" /\ p.ctrl \in aborted
  /\ \E p \in probes : p.phase = "json" /\ p.ctrl \in aborted

\* C2: at most one probe is in flight per target key.
C2_OneProbePerKey ==
  \A p, q \in probes :
    (InFlight(p) /\ InFlight(q) /\ p # q) => Key(p.idx) # Key(q.idx)

C2_OneProbePerKeyCancellable ==
  component \in Cancellable => C2_OneProbePerKey

\* a relaunch for a key whose earlier probe was cancelled but not settled
C2_RelaunchedKey ==
  /\ component \in Cancellable
  /\ \E p, q \in probes :
       /\ p.idx = q.idx /\ p.batch < q.batch
       /\ p.phase # "done" /\ InFlight(q)

\* a handlePing call the monitoring of the SettingsPage made
Monitoring(r) == r.by = "monitor"

\* C3: probes of two cycles are never in flight together, and the interval
\* timer is armed only once the batch has settled.
C3_CyclesDoNotOverlap ==
  /\ \A p, q \in probes : (InFlight(p) /\ InFlight(q)) => p.batch = q.batch
  /\ \A r, q \in runs : (Monitoring(r) /\ Monitoring(q)) => r.id = q.id
  /\ timers # {} =>
       /\ \A p \in probes : ~InFlight(p)
       /\ \A r \in runs : ~Monitoring(r)

C3_CyclesDoNotOverlapCancellable ==
  component \in Cancellable => C3_CyclesDoNotOverlap

\* the second cycle is running, launched by the timer after the first
C3_SecondCycle ==
  /\ component \in Cancellable
  /\ \E d \in drivers : d.id < d.batch /\ d.pc = "batch"
  /\ \E p \in probes : InFlight(p)

\* C4: once stopped, every unsettled probe has been signalled, no timer is
\* armed and no cycle driver is left that could launch a batch (part_007:
\* ExplorerPage and SettingsPage).
C4_StopCancelsAll ==
  (component \in {"explorer", "settings"} /\ ~liveMonitoring) =>
    /\ \A p \in probes : p.phase # "done" => p.ctrl \in aborted
    /\ timers = {}
    /\ \A d \in drivers : d.cancelled
    /\ \A r \in runs : ~Monitoring(r)

C4_StopCancelsAllCancellable ==
  component \in Cancellable => C4_StopCancelsAll

Classify(fn, result) ==
  IF fn = "ping"
    THEN IF result.timeout THEN "timeout"
         ELSE IF result.code = "ERR" THEN "network-error"
         ELSE IF result.code = "200" THEN "success"
         ELSE "http-error"
  ELSE IF result.success THEN "success"
  ELSE IF result.message = {"API key not provided"} THEN "missing-credential"
  ELSE IF result.message = {"Network error"} THEN "network-error"
  ELSE "http-error"

\* a probe of a target without credential made no request and reported the
\* missing credential
NoKeyNoRequestMonitor ==
  /\ \A p \in probes :
       MODELS[p.idx].providerKey \notin apiKeys =>
         /\ ~p.sent
         /\ p.resp.kind = "nokey"
  /\ apiKeys = {} =>
       \A p \in probes : pingStatuses[Key(p.idx)] = NoKeyEntry

NoKeyNoRequestInvocation ==
  (invocation.apiKey = "" /\ invocation.phase \notin {"none", "idle"}) =>
    /\ invocation.requests = 0
    /\ invocation.phase = "done"
    /\ Classify(component, invocation.result) = "missing-credential"

\* C6 as claimed: every probe of a target without credential returns the
\* missing-credential outcome and makes no network request.
C6_NoKeyNoRequest ==
  /\ component \in Monitors => NoKeyNoRequestMonitor
  /\ component \in ProbeFunctions => NoKeyNoRequestInvocation

\* C6 as amended: the probes of the dashboard (pingModel of the explorer
\* page and the two routes) make no request without a credential; the core
\* ping() sends its request without an Authorization header.
C6_NoKeyNoRequestDashboard ==
  /\ component \in Monitors => NoKeyNoRequestMonitor
  /\ component \in {"pingModel", "pingProvider"} => NoKeyNoRequestInvocation
  /\ (component = "ping" /\ invocation.apiKey = ""
        /\ invocation.phase # "idle") =>
       /\ invocation.requests = 1
       /\ invocation.request.credential = "none"

\* a cycle over two targets without any credential has completed
C6_CycleWithoutKeys ==
  /\ component = "explorer"
  /\ apiKeys = {}
  /\ \E d \in drivers : d.pc = "sleep" /\ Cardinality(d.list) = 2
  /\ \A i \in ModelIdx :
       Key(i) \in DOMAIN pingStatuses /\ pingStatuses[Key(i)] = NoKeyEntry

\* C7: a settled probe that was not cancelled recorded exactly one outcome
\* and threw nothing; a cancelled one recorded none.
C7_OneOutcomeNoThrow ==
  /\ \A p \in probes :
       /\ ~p.threw
       /\ p.phase = "done" =>
            p.wrote = (IF p.resp.kind = "aborted" THEN 0 ELSE 1)
       /\ p.phase # "done" => p.wrote = 0
  /\ invocation.phase = "done" => invocation.results = 1
  /\ invocation.phase \in {"idle", "wait"} => invocation.results = 0

\* one probe ended on an unparsable body while its sibling was answered
C7_UnparsableBody ==
  \E p, q \in probes :
    /\ p.batch = q.batch
    /\ p.resp.kind = "badjson"
    /\ q.resp.kind = "data"

\* C8: a probe (ping() or pingModel of /api/ping-model) that was still
\* waiting when the timeout budget elapsed ends with the timeout outcome.
C8_TimeoutAfterBudget ==
  (component \in {"ping", "pingModel"}
     /\ invocation.phase = "done" /\ invocation.overBudget) =>
    Classify(component, invocation.result) = "timeout"

\* C8 for ping(), the one probe function that arms a timer
C8_TimeoutAfterBudgetPing ==
  component = "ping" => C8_TimeoutAfterBudget

\* the fixed message of a status code
StatusMessage(code) ==
  CASE code = 401 -> "Invalid API key"
    [] code = 404 -> "Model not found"
    [] code = 429 -> "Rate limited"
    [] OTHER -> HttpMessage(code)

\* C9: both routes map the provider's status code to the outcome: 200 is a
\* success with a latency, 401/404/429 have their fixed messages, any other
\* non-2xx status is "HTTP <code>".
C9_StatusMapping ==
  (component \in {"pingModel", "pingProvider"}
     /\ invocation.phase = "done" /\ invocation.ev.kind = "status") =>
    LET code == invocation.ev.code
        res == invocation.result
    IN /\ code = 200 =>
            /\ res.success
            /\ \E l \in res.latency : l >= 0
       /\ ~ResOk(code) =>
            /\ ~res.success
            /\ res.message = {StatusMessage(code)}

\* C9 for the route /api/ping-model alone
C9_StatusMappingPingModel ==
  component = "pingModel" => C9_StatusMapping

\* what the status map must show for a settled probe
SameOutcome(entry, p) ==
  CASE p.resp.kind = "nokey" -> entry = NoKeyEntry
    [] p.resp.kind \in {"neterr", "badjson"} -> entry = NetworkErrorEntry
    [] p.resp.kind = "data" ->
         /\ entry.status = (IF p.resp.data.success THEN "success" ELSE "error")
         /\ entry.latency = p.resp.data.latency
         /\ entry.message = p.resp.data.message
    [] OTHER -> TRUE

\* the newest batch has settled without being cancelled
CycleComplete ==
  /\ \E p \in probes : p.batch = nextBatch - 1
  /\ \A p \in probes :
       p.batch = nextBatch - 1 => p.phase = "done" /\ p.resp.kind # "aborted"

\* C10: after a complete cycle every target shows the outcome of its own
\* probe, whatever the other probes did, and the next cycle is scheduled.
C10_CycleOutcomes ==
  CycleComplete =>
    /\ \A p \in probes :
         p.batch = nextBatch - 1 => SameOutcome(pingStatuses[Key(p.idx)], p)
    /\ (liveMonitoring /\ filteredModels(search, selectedProvider) # {})
         => timers # {}

C10_CycleOutcomesCancellable ==
  component \in Cancellable => C10_CycleOutcomes

\* a cycle ended with one target answered and the other failed
C10_MixedCycle ==
  /\ component \in Cancellable
  /\ liveMonitoring
  /\ CycleComplete
  /\ \E p, q \in probes :
       /\ p.batch = nextBatch - 1 /\ q.batch = nextBatch - 1
       /\ p.resp.kind = "data" /\ p.resp.data.success
       /\ q.resp.kind = "neterr"

\* the step changes the search text or the provider filter
FilterChanges == search' # search \/ selectedProvider' # selectedProvider

\* the targets of the batch the step launches
LaunchedTargets == {p.idx : p \in {q \in probes' : q.batch = nextBatch}}

\* C11 as claimed: a filter change while monitoring runs launches no batch
\* and leaves the probes of the running cycle alone (not cancelled).
C11_FilterChangeDeferred ==
  [][(component \in Monitors /\ liveMonitoring /\ FilterChanges) =>
       /\ nextBatch' = nextBatch
       /\ \A p \in probes :
            InFlight(p) => (p \in probes' /\ p.ctrl \notin aborted')]_vars

\* C11 as amended: a filter change while monitoring runs restarts it at
\* once - the new batch has exactly the targets of the new filter, and in
\* the part_007 ExplorerPage every probe still out is cancelled; every
\* batch, however launched, has exactly the targets of the filter active
\* when it starts.
C11_FilterChangeRestarts ==
  [][/\ (component \in Monitors /\ liveMonitoring /\ FilterChanges) =>
          /\ filteredModels(search', selectedProvider') # {}
                => nextBatch' = nextBatch + 1
          /\ filteredModels(search', selectedProvider') = {}
                => nextBatch' = nextBatch
          /\ component = "explorer" =>
                \A p \in probes' : p.batch < nextBatch => ~InFlight(p)'
     /\ (component \in Monitors /\ nextBatch' # nextBatch) =>
          LaunchedTargets = filteredModels(search', selectedProvider')]_vars

\* the provider filter was set while both targets were out: the old probe of
\* the target now filtered out is cancelled, the new batch is in flight
C11_FilterChangedMidCycle ==
  /\ component = "explorer"
  /\ liveMonitoring
  /\ selectedProvider = "groq"
  /\ \E p, q \in probes :
       /\ p.idx = 2 /\ p.phase # "done" /\ p.ctrl \in aborted
       /\ q.idx = 1 /\ InFlight(q) /\ p.batch < q.batch

\* the status-map entry of key k, if any
Entry(st, k) == IF k \in DOMAIN st THEN {st[k]} ELSE {}

\* the targets of the newest batch after the step
NewestTargets == {p.idx : p \in {q \in probes' : q.batch = nextBatch' - 1}}

\* C12: in the part_007 ExplorerPage no step alters the entry of a target
\* that is not in the list of the newest cycle - whatever a filter change
\* made of the list, the snapshots published for the other targets stay.
C12_SnapshotsKept ==
  [][component = "explorer" =>
       \A i \in ModelIdx \ NewestTargets :
         Entry(pingStatuses', Key(i)) = Entry(pingStatuses, Key(i))]_vars

\* cycle 1 published both targets, the provider filter was then set and
\* cycle 2 has published the one target left; the other entry is cycle 1's
C12_FilteredAfterCycle ==
  /\ component = "explorer"
  /\ liveMonitoring
  /\ selectedProvider = "groq"
  /\ nextBatch = 3
  /\ CycleComplete
  /\ \A i \in ModelIdx : Key(i) \in DOMAIN pingStatuses
  /\ pingStatuses[Key(1)].lastChecked = {3}
  /\ pingStatuses[Key(2)].lastChecked = {2}

\* the probes of the batch the step launches
LaunchedBatch == {q \in probes' : q.batch = nextBatch}

\* the requests the handlePing call started by the step has out after it
RequestsOut ==
  Cardinality({r \in runs' : r.id = nextBatch /\ r.phase \in {"fetch", "json"}})

\* a launch of the ExplorerPage: one pingModel call per target of the list,
\* and every target with a key has its request out when the step ends
LaunchesAll ==
  (component = "explorer" /\ nextBatch' # nextBatch) =>
    /\ {p.idx : p \in LaunchedBatch} = filteredModels(search', selectedProvider')
    /\ Cardinality(LaunchedBatch)
         = Cardinality(filteredModels(search', selectedProvider'))
    /\ \A p \in LaunchedBatch :
         p.phase = (IF MODELS[p.idx].providerKey \in apiKeys THEN "fetch"
                    ELSE "done")

\* a settled probe is not sent again within its batch
NoRetry ==
  component = "explorer" =>
    \A p \in probes :
      p.phase = "done" =>
        \A q \in probes' : (q.batch = p.batch /\ q.idx = p.idx) => q = p

\* C13 as claimed: every cycle launches one probe per target, all of them in
\* flight at once (ExplorerPage and SettingsPage), without retries.
C13_AllAtOnce ==
  [][/\ LaunchesAll
     /\ NoRetry
     /\ (component = "settings" /\ nextBatch' # nextBatch) =>
          RequestsOut = Cardinality(apiKeys')]_vars

\* C13 as amended: the ExplorerPage launches one probe per target, all at
\* once, without retries; handlePing of the SettingsPage probes the
\* providers one at a time in declaration order, each once per call.
C13_OnePerTarget ==
  [][/\ LaunchesAll
     /\ NoRetry
     /\ component = "settings" =>
          \A r \in runs' :
            /\ r.pos = Len(r.results)
            /\ \A n \in 1..Len(r.results) :
                 /\ r.results[n].provider = PROVIDER_INFO[n]
                 /\ (r.results[n].status = "pending") = (n = r.pos)]_vars

\* one probe of a batch has failed while its sibling is still out
C13_FailedBesideSibling ==
  /\ component = "explorer"
  /\ \E p, q \in probes :
       /\ p.batch = q.batch /\ p.idx # q.idx
       /\ p.resp.kind = "neterr"
       /\ InFlight(q)

\* after the step a cycle driver of the ExplorerPage is at work: its batch
\* is out or its interval timer is armed
DriverAtWork ==
  \E d \in drivers' :
    /\ ~d.cancelled
    /\ \/ d.pc = "batch" /\ \E p \in probes' : p.batch = d.batch /\ p.phase # "done"
       \/ d.pc = "sleep" /\ \E t \in timers' : t.owner = d.id

\* after the step nothing of the monitoring is left at work
NothingAtWork ==
  /\ \A d \in drivers' : d.cancelled
  /\ timers' = {}
  /\ \A p \in probes' : ~InFlight(p)'

\* the step is a probe event or the firing of the interval timer
ProbeOrTimerEvent ==
  \/ HeadersArrive \/ BodyArrive \/ BodyUnparsable \/ NetworkError
  \/ AbortSettle \/ TimerFires7

\* while liveMonitoring is on, the loop is at work exactly when the list is
\* not empty, and no probe or timer event switches liveMonitoring off
RunsWhileListed ==
  component = "explorer" =>
    /\ (liveMonitoring' /\ filteredModels(search', selectedProvider') # {})
         => DriverAtWork
    /\ (liveMonitoring' /\ filteredModels(search', selectedProvider') = {})
         => NothingAtWork
    /\ ProbeOrTimerEvent => liveMonitoring' = liveMonitoring

\* C14 as claimed: an empty target list ends monitoring - no batch is
\* launched until monitoring is started again - and nothing but stop or an
\* empty list takes the monitor out of Running.
C14_EndsOnEmptyList ==
  [][/\ RunsWhileListed
     /\ (component = "explorer" /\ liveMonitoring /\ liveMonitoring'
           /\ filteredModels(search, selectedProvider) = {})
          => nextBatch' = nextBatch]_vars

\* C14 as amended: an empty list suspends the loop (no driver, timer or
\* probe at work) while liveMonitoring stays on, and the loop is at work
\* again as soon as the list is not empty; only toggleLiveMonitoring
\* switches liveMonitoring off.
C14_SuspendedOnEmptyList ==
  [][RunsWhileListed]_vars

\* the search text emptied the list after a batch had been launched
C14_EmptiedWhileRunning ==
  /\ component = "explorer"
  /\ liveMonitoring
  /\ filteredModels(search, selectedProvider) = {}
  /\ nextBatch > 1
  /\ \E p \in probes : p.phase # "done" /\ p.ctrl \in aborted

\* C15: a request of the browser that carries an API key goes to the
\* endpoint of the provider the key belongs to, never to another party.
C15_KeyOnlyToProvider ==
  \A p \in probes : p.req.keyOf # "" => p.req.to = p.req.keyOf

\* the result of pingModel of the route /api/ping-model, once returned
RouteResults ==
  IF component = "pingModel" /\ invocation.phase = "done"
    THEN {invocation.result} ELSE {}

\* the entries of the status map of the ExplorerPage
StatusEntries ==
  IF component \in Monitors
    THEN {pingStatuses[k] : k \in DOMAIN pingStatuses} ELSE {}

GoogleShape(r) ==
  /\ r.method = "POST"
  /\ r.url = "<endpoint>/<modelId>:generateContent"
  /\ r.credential = "query"
  /\ r.envelope = "google"

BearerShape(r) ==
  /\ r.method = "POST"
  /\ r.url = "<endpoint>"
  /\ r.credential = "header"
  /\ r.envelope = "openai"

\* the OpenAI-compatible request with the body the claim names
PingBody(r) == r.text = "ping" /\ r.maxTokens = 5

RequestSent == invocation.requests >= 1

\* C17 as claimed: a probe (pingModel of the route, ping of the core) sends
\* one POST; to Google AI it is the generateContent URL with the key as query
\* parameter and no Authorization header, to every other provider it carries
\* Authorization: Bearer and the body {model, [user "ping"], max_tokens: 5}.
C17_RequestShape ==
  (component \in {"pingModel", "ping"} /\ RequestSent) =>
    /\ invocation.requests = 1
    /\ IF invocation.provider = "googleai"
         THEN GoogleShape(invocation.request)
         ELSE BearerShape(invocation.request) /\ PingBody(invocation.request)

\* C17 as amended: a probe sends at most one POST. The routes send the two
\* shapes of the claim, chosen by the provider and never mixed; ping() of the
\* core sends the OpenAI-compatible envelope with the message "hi" and
\* max_tokens 1, with the Authorization header only when it has a key, and
\* never the query parameter.
C17_RequestShapeByCaller ==
  /\ component \in ProbeFunctions => invocation.requests <= 1
  /\ (component \in {"pingModel", "pingProvider"} /\ RequestSent) =>
       IF invocation.provider \in {"googleai", "GOOGLE_API_KEY"}
         THEN GoogleShape(invocation.request)
         ELSE BearerShape(invocation.request) /\ PingBody(invocation.request)
  /\ (component = "ping" /\ RequestSent) =>
       /\ invocation.request.method = "POST"
       /\ invocation.request.url = "<endpoint>"
       /\ invocation.request.envelope = "openai"
       /\ invocation.request.text = "hi"
       /\ invocation.request.maxTokens = 1
       /\ invocation.request.credential =
            (IF invocation.apiKey = "" THEN "none" ELSE "header")

\* the route has sent its request to Google AI and the provider has answered
C17_GoogleProbed ==
  /\ component = "pingModel"
  /\ invocation.provider = "googleai"
  /\ invocation.phase = "done"
  /\ invocation.requests = 1
  /\ invocation.result.success

\* ------------------------------------------------------------------------
\* C18, C19
\* ------------------------------------------------------------------------
\* positions of the history that hold a successful ping
Succeeded(pings) == {i \in 1..Len(pings) : pings[i].code = "200"}

\* sum of the latencies at the positions S of the history
RECURSIVE SumMs(_, _)
SumMs(S, pings) ==
  IF S = {} THEN 0
  ELSE LET i == CHOOSE j \in S : TRUE
       IN (CHOOSE ms \in pings[i].ms : TRUE) + SumMs(S \ {i}, pings)

\* the mean of the successful pings, rounded to an integer, is below t
MeanBelow(pings, t) ==
  LET n == Cardinality(Succeeded(pings))
  IN 2 * SumMs(Succeeded(pings), pings) + n < 2 * t * n

\* the verdict the documented rules give, the first rule that applies
DocumentedVerdict(result) ==
  LET down == result.status \in {"timeout", "down"}
      succeeded == Succeeded(result.pings) # {}
  IN CASE result.httpCode = "429" -> {"Overloaded"}
       [] result.httpCode # "429" /\ down /\ succeeded -> {"Unstable"}
       [] result.httpCode # "429" /\ down /\ ~succeeded -> {"Not Active"}
       [] result.httpCode # "429" /\ ~down /\ ~succeeded -> {"Pending"}
       [] OTHER ->
            IF MeanBelow(result.pings, 400) THEN {"Perfect"}
            ELSE IF MeanBelow(result.pings, 1000) THEN {"Normal"}
            ELSE IF MeanBelow(result.pings, 3000) THEN {"Slow"}
            ELSE IF MeanBelow(result.pings, 5000) THEN {"Very Slow"}
            ELSE {"Perfect", "Normal", "Slow", "Very Slow", "Overloaded",
                  "Unstable", "Not Active", "Pending"}

\* C18: the verdict getVerdict returns is the one of the documented rules:
\* Overloaded for HTTP code 429; else Unstable / Not Active for a status of
\* timeout or down with / without a successful ping; else Pending without a
\* successful ping; else Perfect, Normal, Slow, Very Slow for an average
\* below 400, 1000, 3000, 5000 ms.
C18_VerdictByRules ==
  (component \in ResultFunctions /\ invocation.verdict # {}) =>
    invocation.verdict \subseteq DocumentedVerdict(invocation.modelResult)

\* getVerdict has classified a history whose mean of 399.5 ms rounds to 400
C18_RoundedIntoNormal ==
  /\ component \in ResultFunctions
  /\ invocation.verdict = {"Normal"}
  /\ Len(invocation.modelResult.pings) = 2
  /\ invocation.modelResult.pings[1].ms = {399}
  /\ invocation.modelResult.pings[2].ms = {400}

\* pings that did not succeed: a 429, a timeout, a transport error
FailedPings == {p \in PingResults : p.code # "200"}

\* C19: getAvg returns the rounded mean of the latencies of the code '200'
\* pings, the same value with a failed ping added or all failed pings
\* removed, and Infinity exactly when no ping has succeeded.
C19_AvgOfSuccessful ==
  (component \in ResultFunctions /\ invocation.avg # {}) =>
    LET result == invocation.modelResult
        ok == Succeeded(result.pings)
        n == Cardinality(ok)
        total == SumMs(ok, result.pings)
    IN \A avg \in invocation.avg :
         /\ (avg = Infinity) = (ok = {})
         /\ ok # {} =>
              /\ (2 * avg - 1) * n <= 2 * total
              /\ 2 * total < (2 * avg + 1) * n
         /\ \A f \in FailedPings :
              getAvg([result EXCEPT !.pings = Append(@, f)]) = avg
         /\ getAvg([result EXCEPT !.pings = SuccessfulPings(@)]) = avg

\* getAvg has averaged a history that holds a success and a failure
C19_FailureIgnored ==
  /\ component \in ResultFunctions
  /\ invocation.avg = {400}
  /\ Len(invocation.modelResult.pings) = 2
  /\ invocation.modelResult.pings[1].code = "200"
  /\ invocation.modelResult.pings[2].code = "429"

\* ------------------------------------------------------------------------
\* C20
\* ------------------------------------------------------------------------
\* the step switches monitoring on
StartStep == ~liveMonitoring /\ liveMonitoring'

\* the start step has launched the first batch: one probe per target of the
\* list on the explorer pages, the handlePing call on the Settings page
FirstBatchOut ==
  /\ (component \in Monitors
        /\ filteredModels(search', selectedProvider') # {}) =>
       /\ nextBatch' = nextBatch + 1
       /\ LaunchedTargets = filteredModels(search', selectedProvider')
  /\ component = "settings" =>
       /\ nextBatch' = nextBatch + 1
       /\ pingResults'
            = StartHandlePing(nextBatch, "monitor", apiKeys, apiKeys).results

\* the step launches a batch of the running monitor
BatchLaunchedLive ==
  /\ component \in Monitors \cup {"settings"}
  /\ liveMonitoring'
  /\ nextBatch' # nextBatch

\* the step is the firing of the interval timer
IntervalElapsed == TimerFires7 \/ TimerFiresLegacy \/ IntervalFires

\* the step changes a dependency of the live monitoring effect
EffectRestarted ==
  SetSearch \/ SetSelectedProvider \/ SetSortDir \/ SaveKey \/ DeleteKey

\* C20 as claimed: the step that starts monitoring launches the first batch,
\* and every other batch of the running monitor is launched by the firing of
\* the interval timer.
C20_BatchesOnIntervalOnly ==
  [][/\ StartStep => FirstBatchOut
     /\ BatchLaunchedLive => (StartStep \/ IntervalElapsed)]_vars

\* C20 as amended: the step that starts monitoring launches the first batch;
\* every other batch of the running monitor is launched by the firing of the
\* interval timer or, without any wait, by a change of the filters or the
\* sort order (explorer pages) or of the stored keys (Settings page).
C20_BatchesOnIntervalOrRestart ==
  [][/\ StartStep => FirstBatchOut
     /\ BatchLaunchedLive =>
          (StartStep \/ IntervalElapsed \/ EffectRestarted)]_vars

\* the first batch is out and no timer has been armed yet
C20_FirstBatchBeforeInterval ==
  /\ component = "explorer"
  /\ liveMonitoring
  /\ nextBatch = 2
  /\ timers = {}
  /\ \E p \in probes : p.batch = 1 /\ p.phase = "fetch"

\* ------------------------------------------------------------------------
\* C21
\* ------------------------------------------------------------------------
\* C21 as claimed: every entry that is not pending carries a lastChecked.
C21_CompletedHasTimestamp ==
  \A e \in StatusEntries : e.status # "pending" => e.lastChecked # {}

\* C21 as amended: an entry carries a lastChecked exactly when it was written
\* from an answer of the route; a pending entry and the two entries the
\* browser writes on its own ('No API key', 'Network error', both without
\* latency) carry none. A timestamp is never later than the present.
C21_TimestampFromAnswer ==
  \A e \in StatusEntries :
    /\ (e.lastChecked = {}) =
         \/ e.status = "pending"
         \/ /\ e.status = "error"
            /\ e.latency = {}
            /\ e.message \in {{"No API key"}, {"Network error"}}
    /\ \A t \in e.lastChecked : t <= Now

\* one target was answered by the route, the probe of the other ended in the
\* catch block
C21_AnsweredBesideCaught ==
  /\ component = "explorer"
  /\ \E e \in StatusEntries : e.status = "success" /\ e.lastChecked # {}
  /\ \E e \in StatusEntries : e = NetworkErrorEntry

\* ------------------------------------------------------------------------
\* C22
\* ------------------------------------------------------------------------
\* what the latest set of the key, if neither deleted nor cleared since,
\* lets a get at time now return
Expected(key, now) ==
  IF key \in DOMAIN written
       /\ \E ttl \in (IF written[key].ttl = {} THEN {DefaultTtl}
                       ELSE written[key].ttl) :
            now - written[key].at <= ttl
    THEN {written[key].data} ELSE {}

\* C22: a get returns the value of the latest set of its key while no more
\* than the TTL of that set (its own, else the default) has elapsed, and null
\* otherwise - after expiry, with the key gone from stats(), and after
\* delete or clear.
C22_GetServesLatestSet ==
  (component = "DataCache" /\ returned.op = "get") =>
    /\ returned.value = Expected(returned.key, clock)
    /\ returned.value = {} => returned.key \notin CacheStats(cache).keys

\* a get found its entry expired: set with TTL 1, read two ticks later
C22_ExpiredOnGet ==
  /\ component = "DataCache"
  /\ returned.op = "get"
  /\ returned.value = {}
  /\ returned.key \in DOMAIN written
  /\ written[returned.key].ttl = {1}
  /\ clock - written[returned.key].at = 2

\* ------------------------------------------------------------------------
\* C23
\* ------------------------------------------------------------------------
\* the step is a getModels call that finds no live 'models:all' entry and
\* whose service has no source or one that throws
FailedFetch ==
  /\ component = "DataService"
  /\ returned'.op = "getModels"
  /\ ("models:all" \in DOMAIN cache =>
        clock - cache["models:all"].timestamp > cache["models:all"].ttl)
  /\ services[returned'.svc].source \in {"none", "throws"}

\* the call returns the fallback data if there is any, else it throws
FallbackOrError ==
  LET fallbackData == services[returned'.svc].fallbackData
  IN IF fallbackData # << >>
       THEN returned'.value = {fallbackData} /\ ~returned'.threw
       ELSE returned'.value = {} /\ returned'.threw

\* C23 as claimed: a getModels that cannot obtain data returns the fallback
\* data or propagates the error, and leaves the cache as it was.
C23_FailureLeavesCache ==
  [][FailedFetch => (FallbackOrError /\ cache' = cache)]_vars

\* C23 as amended: a getModels that cannot obtain data returns the fallback
\* data or propagates the error and writes no entry; the cache is as before
\* but for an expired 'models:all' entry, which the lookup has removed, so
\* the next call goes to the source again.
C23_FailureWritesNothing ==
  [][FailedFetch =>
       /\ FallbackOrError
       /\ DOMAIN cache' = DOMAIN cache \ {"models:all"}
       /\ \A k \in DOMAIN cache' : cache'[k] = cache[k]]_vars

\* a service whose source throws has answered with its fallback data, after
\* the entry another service had cached expired
C23_FellBack ==
  /\ component = "DataService"
  /\ returned.op = "getModels"
  /\ returned.value = {FallbackCatalog}
  /\ services[returned.svc].source = "throws"
  /\ clock = 3
  /\ "models:all" \notin DOMAIN cache
  /\ "models:provider:groq" \in DOMAIN cache

\* ------------------------------------------------------------------------
\* C28
\* ------------------------------------------------------------------------
\* what getModels() of the service that just answered serves at this moment
ServedNow == GetModels(services[returned.svc], cache, clock)

\* the filter the call that just returned stands for
Corresponding(models) ==
  IF returned.op = "getModelsByProvider"
    THEN SelectSeq(models, LAMBDA m : m.providerKey = returned.key)
    ELSE SelectSeq(models, LAMBDA m : m.tier = returned.key)

\* C28: what getModelsByProvider(p) or getModelsByTier(t) has just served is
\* the corresponding filter of what getModels() serves at the same moment.
C28_FilteredViewsAgree ==
  (component = "DataService"
     /\ returned.op \in {"getModelsByProvider", "getModelsByTier"}
     /\ ~returned.threw) =>
    /\ ~ServedNow.threw
    /\ returned.value = {Corresponding(ServedNow.value)}

\* ------------------------------------------------------------------------
\* C24
\* ------------------------------------------------------------------------
\* the tiers the letter stands for, whatever its case; none for a letter
\* that is no tier letter
LetterGroup(tierLetter) ==
  CASE tierLetter \in {"S", "s"} -> {"S+", "S"}
    [] tierLetter \in {"A", "a"} -> {"A+", "A", "A-"}
    [] tierLetter \in {"B", "b"} -> TIER_LETTER_MAP_CONST["B"]
    [] tierLetter \in {"C", "c"} -> TIER_LETTER_MAP_CONST["C"]
    [] OTHER -> {}

\* list holds exactly the elements of results at the positions pos, in the
\* order of results
SubListAt(list, results, pos) ==
  /\ Len(list) = Cardinality(pos)
  /\ \A i \in pos :
       list[Cardinality({k \in pos : k < i}) + 1] = results[i]

LettersReturning(results, i) ==
  {letter \in DOMAIN TIER_LETTER_MAP :
     \E list \in filterByTier(results, letter) :
       \E k \in 1..Len(list) : list[k] = results[i]}

\* C29: every tier of the tier order is in exactly one letter group of
\* filterByTier, the groups are those of TIER_LETTER_MAP of the types
\* package, and filtering a list by each letter in turn returns every result
\* for exactly one letter.
C29_LettersPartitionTiers ==
  (component = "filterByTier" /\ returned.op = "filterByTier") =>
    /\ \A j \in DOMAIN TIER_ORDER_CONST :
         Cardinality({letter \in DOMAIN TIER_LETTER_MAP_CONST :
                        TIER_ORDER_CONST[j] \in TIER_LETTER_MAP_CONST[letter]})
           = 1
    /\ TIER_ORDER_CONST = TIER_ORDER
    /\ TIER_LETTER_MAP_CONST = TIER_LETTER_MAP
    /\ \A i \in 1..Len(invocation.results) :
         Cardinality(LettersReturning(invocation.results, i)) = 1

\* ------------------------------------------------------------------------
\* C30
\* ------------------------------------------------------------------------
\* data holds tuples of the bundled MODELS only
Bundled(data) ==
  \A i \in 1..Len(data) :
    \E j \in DOMAIN MODELS_PerSource : data[i] = MODELS_PerSource[j]

\* C30: every provider key of the bundled catalogue is in ProviderKeySchema:
\* validateModelTuples of bundled tuples returns success without errors, and
\* a service with validation enabled that fetches the bundled MODELS logs no
\* validation error.
C30_BundledCatalogueValid ==
  /\ (returned.op = "validateModelTuples" /\ Bundled(invocation.data)) =>
       /\ \A i \in DOMAIN providers : providers[i] \in ProviderKeySchema
       /\ \A r \in returned.value : r.success /\ r.errors = << >>
  /\ (returned.op = "getModels" /\ ~returned.threw
        /\ returned.value = {MODELS_PerSource}) => ~returned.warned

\* ------------------------------------------------------------------------
\* C25
\* ------------------------------------------------------------------------
\* C25: while the monitor with cancellation is Idle and no probe is
\* unsettled, no target shows pending.
C25_NoPendingWhenIdle ==
  (/\ component \in Cancellable
   /\ ~liveMonitoring
   /\ Unsettled(probes) = {})
    => \A k \in DOMAIN pingStatuses : pingStatuses[k].status # "pending"

\* ------------------------------------------------------------------------
\* C27
\* ------------------------------------------------------------------------
\* the drivers able to launch probes: the runMonitoring loops that are not
\* cancelled and the handlePing calls of the monitor that are under way
\* (the effect of app/explorer/page.tsx launches through its timer)
Launchers ==
  {d.id : d \in {x \in drivers : ~x.cancelled}}
    \cup {r.id : r \in {x \in runs : x.by = "monitor"}}

\* the batch the current effect launched last
CurrentBatch ==
  IF component \in Cancellable THEN pingAbortControllerRef ELSE intervalRef

\* there is one launcher and one timer, the timer is the one the ref holds,
\* and whatever sends a request in the step belongs to the current effect
OneLauncherStep ==
  /\ Cardinality(Launchers') <= 1
  /\ Cardinality(timers') <= 1
  /\ \A t \in timers' : t.id = intervalRef'
  /\ \A d \in drivers, e \in drivers' :
       (e.id = d.id /\ d.cancelled) =>
         /\ e.batch = d.batch
         /\ \A t \in timers' : t.owner # e.id
  /\ \A p \in probes' :
       (\A q \in probes : q.batch # p.batch) =>
         liveMonitoring' /\ p.batch = CurrentBatch'
  /\ \A r \in runs, q \in runs' :
       (q.id = r.id /\ q.by = "monitor" /\ q.pos > r.pos
          /\ q.phase = "fetch")
         => liveMonitoring' /\ q.id >= intervalRef'

\* C27: at most one cycle driver is able to launch probes and at most one
\* timer is armed; after a restart or a stop the superseded driver launches
\* nothing more and arms no timer.
C27_OneLauncher == [][OneLauncherStep]_vars

\* C27 for the two ExplorerPage implementations
C27_OneLauncherExplorer ==
  [][(component \in Monitors) => OneLauncherStep]_vars

\* ------------------------------------------------------------------------
\* C26
\* ------------------------------------------------------------------------
BatchUnsettled(b) == \E p \in probes : p.batch = b /\ p.phase # "done"

\* the monitor is Running and its driver waits for batch b
DriverAwaits(b) ==
  /\ liveMonitoring
  /\ \E d \in drivers : ~d.cancelled /\ d.pc = "batch" /\ d.batch = b

\* the driver of batch b is in its interval wait
DriverSleeps(b) ==
  \E d \in drivers :
    /\ ~d.cancelled /\ d.pc = "sleep" /\ d.batch = b
    /\ \E t \in timers : t.owner = d.id

\* monitoring was stopped, or a filter left no target
NotRunning ==
  ~liveMonitoring \/ filteredModels(search, selectedProvider) = {}

====
